---- MODULE Spec2Model ----
(***************************************************************************)
(* Verification driver of the proof checker (src/python/prover.py):        *)
(* the AST-to-solver translator (term_to_z3, formula_to_z3), the solver    *)
(* interface the driver uses (Solver.add / check / model) and the driver   *)
(* prove() itself, walked one loop iteration per action.                   *)
(***************************************************************************)
EXTENDS Integers, Sequences, FiniteSets, TLC

(***************************************************************************)
(* Bounds of the model.                                                    *)
(***************************************************************************)
\* longest assumption list of a unit
MaxAssumptions == 2
\* longest step list of a unit
MaxSteps == 2
\* most lines of a parsed text before its last line
MaxLines == 2
\* most comparisons of a comparison chain
MaxChain == 3
\* the lines entered in one REPL session
MaxSession == 3
\* the solver searches models with integer values in -ValBound..ValBound
\* (and the half-integers between them for real-sorted constants)
ValBound == 1

(***************************************************************************)
(* JSON values.  A JSON object is a record; d.get(k) is read through Has.  *)
(* A JSON value that is not an object (None, a string, a number used where *)
(* a node is expected) is the record [atom |-> ...].                       *)
(***************************************************************************)
Has(d, k) == k \in DOMAIN d

IsObject(d) == ~Has(d, "atom")

JsonNone == [atom |-> "None"]

\* the helpers of src/python/test_prover.py
var(name) == [type |-> "var", name |-> name]

num(val) == [type |-> "num", value |-> val]

binary(op, lhs, rhs) == [type |-> "bin", op |-> op, lhs |-> lhs, rhs |-> rhs]

rel(op, lhs, rhs) == [type |-> "rel", op |-> op, lhs |-> lhs, rhs |-> rhs]

(***************************************************************************)
(* Solver expressions.  A constant is <<name, sort>>: z3 identifies a      *)
(* constant by its name and sort.  Values are exact rationals <<n, d>>,    *)
(* d > 0.                                                                  *)
(***************************************************************************)
\* Int(name) / Real(name)
IntConst(name) == <<name, "Int">>

RealConst(name) == <<name, "Real">>

\* RealVal(value)
RealVal(value) == [k |-> "val", v |-> <<value, 1>>]

\* var_types.get(name) == 'Int' ? Int(name) : Real(name)
MkConst(name, var_types) ==
    IF name \in DOMAIN var_types /\ var_types[name] = "Int" THEN IntConst(name) ELSE RealConst(name)

\* If(c, a, b)
If(c, a, b) == [k |-> "ite", c |-> c, a |-> a, b |-> b]

Cmp(op, a, b) == [k |-> "cmp", op |-> op, lhs |-> a, rhs |-> b]

Arith(op, a, b) == [k |-> "arith", op |-> op, lhs |-> a, rhs |-> b]

Neg(a) == [k |-> "neg", arg |-> a]

Not(a) == [k |-> "not", arg |-> a]

(***************************************************************************)
(* term_to_z3(t, env, var_types).  The Python function either raises       *)
(* TermError, or returns the expression and leaves env extended: the three *)
(* operators below are whether it raises, the env it leaves and the        *)
(* expression it returns.                                                  *)
(***************************************************************************)
RECURSIVE term_raises(_)
term_raises(t) ==
    IF ~IsObject(t) THEN TRUE
    ELSE IF ~Has(t, "type") THEN TRUE
    ELSE CASE t.type = "num" -> ~Has(t, "value")
           [] t.type = "var" -> ~Has(t, "name")
           [] t.type = "bin" ->
                 \/ ~Has(t, "op")
                 \/ ~Has(t, "lhs") \/ ~Has(t, "rhs")
                 \/ term_raises(t.lhs) \/ term_raises(t.rhs)
                 \/ t.op \notin {"+", "-", "*", "/"}
           [] t.type \in {"abs", "neg", "sqrt"} -> ~Has(t, "arg") \/ term_raises(t.arg)
           [] t.type = "pow" ->
                 \/ ~Has(t, "base") \/ ~Has(t, "exp")
                 \/ term_raises(t.base) \/ term_raises(t.exp)
           [] t.type \in {"min", "max"} ->
                 \/ ~Has(t, "args")
                 \/ Len(t.args) < 2
                 \/ \E j \in 1..Len(t.args) : term_raises(t.args[j])
           [] OTHER -> TRUE

\* mutant: a name met for the first time is always real
EnvWith_Real(name, env, var_types) ==
    IF name \in DOMAIN env THEN env ELSE (name :> RealConst(name)) @@ env

\* if name not in env: env[name] = Int(name) / Real(name)
EnvWith(name, env, var_types) ==
    IF name \in DOMAIN env THEN env ELSE (name :> MkConst(name, var_types)) @@ env

RECURSIVE term_env(_, _, _)
RECURSIVE TermArgsEnv(_, _, _, _)
\* env once args[1..k] have been translated, in order
TermArgsEnv(args, k, env, var_types) ==
    IF k = 0 THEN env
    ELSE term_env(args[k], TermArgsEnv(args, k - 1, env, var_types), var_types)

term_env(t, env, var_types) ==
    CASE t.type = "num" -> env
      [] t.type = "var" -> EnvWith(t.name, env, var_types)
      [] t.type = "bin" -> term_env(t.rhs, term_env(t.lhs, env, var_types), var_types)
      [] t.type \in {"abs", "neg", "sqrt"} -> term_env(t.arg, env, var_types)
      [] t.type = "pow" -> term_env(t.exp, term_env(t.base, env, var_types), var_types)
      [] t.type \in {"min", "max"} -> TermArgsEnv(t.args, Len(t.args), env, var_types)

\* If(x >= 0, x, -x)
AbsExpr(x) == If(Cmp(">=", x, RealVal(0)), x, Neg(x))

\* If(result <= other, result, other) / If(result >= other, result, other)
MinMaxExpr(op, result, other) == If(Cmp(op, result, other), result, other)

RECURSIVE term_expr(_, _, _)
RECURSIVE FoldMinMax(_, _, _, _, _)
\* the fold over args[1..k]: args[1], then one If per further argument
FoldMinMax(op, args, k, env, var_types) ==
    IF k = 1 THEN term_expr(args[1], env, var_types)
    ELSE MinMaxExpr(op, FoldMinMax(op, args, k - 1, env, var_types),
                    term_expr(args[k], TermArgsEnv(args, k - 1, env, var_types),
                              var_types))

term_expr(t, env, var_types) ==
    CASE t.type = "num" -> RealVal(t.value)
      [] t.type = "var" -> [k |-> "const", c |-> EnvWith(t.name, env, var_types)[t.name]]
      [] t.type = "bin" ->
            Arith(t.op, term_expr(t.lhs, env, var_types),
                  term_expr(t.rhs, term_env(t.lhs, env, var_types), var_types))
      [] t.type = "abs" -> AbsExpr(term_expr(t.arg, env, var_types))
      [] t.type = "neg" -> Neg(term_expr(t.arg, env, var_types))
      [] t.type = "pow" ->
            [k |-> "pow", base |-> term_expr(t.base, env, var_types),
             exp |-> term_expr(t.exp, term_env(t.base, env, var_types), var_types)]
      [] t.type = "sqrt" ->
            [k |-> "pow", base |-> term_expr(t.arg, env, var_types),
             exp |-> [k |-> "val", v |-> <<1, 2>>]]
      [] t.type = "min" -> FoldMinMax("<=", t.args, Len(t.args), env, var_types)
      [] t.type = "max" -> FoldMinMax(">=", t.args, Len(t.args), env, var_types)

(***************************************************************************)
(* formula_to_z3(f, env, var_types): whether it raises, the env it leaves  *)
(* and the expression it returns.                                          *)
(***************************************************************************)
RECURSIVE formula_raises(_)
formula_raises(f) ==
    IF ~IsObject(f) THEN TRUE
    ELSE IF ~Has(f, "type") THEN TRUE
    ELSE CASE f.type = "rel" ->
                 \/ ~Has(f, "op")
                 \/ ~Has(f, "lhs") \/ ~Has(f, "rhs")
                 \/ term_raises(f.lhs) \/ term_raises(f.rhs)
                 \/ f.op \notin {"<", "<=", "=", "!=", ">", ">="}
           [] f.type \in {"and", "or"} ->
                 /\ Has(f, "args")
                 /\ \E j \in 1..Len(f.args) : formula_raises(f.args[j])
           [] f.type = "not" -> ~Has(f, "arg") \/ formula_raises(f.arg)
           [] f.type = "implies" ->
                 \/ ~Has(f, "lhs") \/ ~Has(f, "rhs")
                 \/ formula_raises(f.lhs) \/ formula_raises(f.rhs)
           [] f.type \in {"forall", "exists"} ->
                 \/ ~Has(f, "vars")
                 \/ Len(f.vars) = 0
                 \/ ~Has(f, "body")
                 \/ formula_raises(f.body)
           [] OTHER -> TRUE

\* env[name] = v for every bound name, in order: the caller's env is changed
RECURSIVE BindQuantVars(_, _, _, _)
BindQuantVars(var_names, k, env, var_types) ==
    IF k = 0 THEN env
    ELSE (var_names[k] :> MkConst(var_names[k], var_types))
             @@ BindQuantVars(var_names, k - 1, env, var_types)

\* f.get("args", [])
ArgsOf(f) == IF Has(f, "args") THEN f.args ELSE <<>>

RECURSIVE formula_env(_, _, _)
RECURSIVE ArgsEnv(_, _, _, _)
\* env once the formulas args[1..k] have been translated in it, in order
ArgsEnv(args, k, env, var_types) ==
    IF k = 0 THEN env
    ELSE formula_env(args[k], ArgsEnv(args, k - 1, env, var_types), var_types)

formula_env(f, env, var_types) ==
    CASE f.type = "rel" -> term_env(f.rhs, term_env(f.lhs, env, var_types), var_types)
      [] f.type \in {"and", "or"} -> ArgsEnv(ArgsOf(f), Len(ArgsOf(f)), env, var_types)
      [] f.type = "not" -> formula_env(f.arg, env, var_types)
      [] f.type = "implies" ->
            formula_env(f.rhs, formula_env(f.lhs, env, var_types), var_types)
      [] f.type \in {"forall", "exists"} ->
            formula_env(f.body, BindQuantVars(f.vars, Len(f.vars), env, var_types),
                        var_types)

RECURSIVE formula_expr(_, _, _)
formula_expr(f, env, var_types) ==
    CASE f.type = "rel" ->
            Cmp(f.op, term_expr(f.lhs, env, var_types),
                term_expr(f.rhs, term_env(f.lhs, env, var_types), var_types))
      [] f.type \in {"and", "or"} ->
            IF Len(ArgsOf(f)) = 0
            THEN [k |-> IF f.type = "and" THEN "true" ELSE "false"]
            ELSE [k |-> f.type,
                  args |-> [j \in 1..Len(f.args) |->
                               formula_expr(f.args[j],
                                            ArgsEnv(f.args, j - 1, env, var_types),
                                            var_types)]]
      [] f.type = "not" -> Not(formula_expr(f.arg, env, var_types))
      [] f.type = "implies" ->
            [k |-> "implies", lhs |-> formula_expr(f.lhs, env, var_types),
             rhs |-> formula_expr(f.rhs, formula_env(f.lhs, env, var_types), var_types)]
      [] f.type \in {"forall", "exists"} ->
            [k |-> f.type,
             vars |-> [j \in 1..Len(f.vars) |-> MkConst(f.vars[j], var_types)],
             body |-> formula_expr(f.body,
                                   BindQuantVars(f.vars, Len(f.vars), env, var_types),
                                   var_types)]

(***************************************************************************)
(* The solver (z3, imported at prover.py:8-11), as the driver uses it:     *)
(* Solver(), add, check, model, model.eval.  It decides a query by         *)
(* searching the bounded value domain; a term outside linear arithmetic is *)
(* a power or a division by anything but a non-zero literal.               *)
(***************************************************************************)
RAdd(a, b) == <<a[1] * b[2] + b[1] * a[2], a[2] * b[2]>>

RSub(a, b) == <<a[1] * b[2] - b[1] * a[2], a[2] * b[2]>>

RMul(a, b) == <<a[1] * b[1], a[2] * b[2]>>

RDiv(a, b) == IF b[1] > 0 THEN <<a[1] * b[2], a[2] * b[1]>>
              ELSE <<(0 - a[1]) * b[2], a[2] * (0 - b[1])>>

RNeg(a) == <<0 - a[1], a[2]>>

RLess(a, b) == a[1] * b[2] < b[1] * a[2]

REq(a, b) == a[1] * b[2] = b[1] * a[2]

\* the values a constant of the sort can take in a model
SortValues(sort) ==
    IF sort = "Int" THEN {<<n, 1>> : n \in (0 - ValBound)..ValBound}
    ELSE {<<n, 2>> : n \in (0 - 2 * ValBound)..(2 * ValBound)}

\* the assignments of values to the constants, each within its sort
Assignments(consts) ==
    {ints @@ reals :
        ints \in [{c \in consts : c[2] = "Int"} -> SortValues("Int")],
        reals \in [{c \in consts : c[2] # "Int"} -> SortValues("Real")]}

SeqRange(s) == {s[j] : j \in 1..Len(s)}

\* the free constants of an expression
RECURSIVE Consts(_)
Consts(e) ==
    CASE e.k = "val" -> {}
      [] e.k = "const" -> {e.c}
      [] e.k \in {"arith", "cmp", "implies"} -> Consts(e.lhs) \cup Consts(e.rhs)
      [] e.k \in {"neg", "not"} -> Consts(e.arg)
      [] e.k = "ite" -> Consts(e.c) \cup Consts(e.a) \cup Consts(e.b)
      [] e.k = "pow" -> Consts(e.base) \cup Consts(e.exp)
      [] e.k \in {"and", "or"} -> UNION {Consts(e.args[j]) : j \in 1..Len(e.args)}
      [] e.k \in {"forall", "exists"} -> Consts(e.body) \ SeqRange(e.vars)
      [] OTHER -> {}

\* a term the solver's arithmetic does not decide
RECURSIVE Hard(_)
Hard(e) ==
    CASE e.k = "pow" -> TRUE
      [] e.k = "arith" ->
            \/ Hard(e.lhs) \/ Hard(e.rhs)
            \/ (e.op = "/" /\ (e.rhs.k # "val" \/ e.rhs.v[1] = 0))
      [] e.k \in {"cmp", "implies"} -> Hard(e.lhs) \/ Hard(e.rhs)
      [] e.k \in {"neg", "not"} -> Hard(e.arg)
      [] e.k = "ite" -> Hard(e.c) \/ Hard(e.a) \/ Hard(e.b)
      [] e.k \in {"and", "or"} -> \E j \in 1..Len(e.args) : Hard(e.args[j])
      [] e.k \in {"forall", "exists"} -> Hard(e.body)
      [] OTHER -> FALSE

RECURSIVE EvalTerm(_, _)
RECURSIVE Holds(_, _)
EvalTerm(e, m) ==
    CASE e.k = "val" -> e.v
      [] e.k = "const" -> m[e.c]
      [] e.k = "neg" -> RNeg(EvalTerm(e.arg, m))
      [] e.k = "ite" -> IF Holds(e.c, m) THEN EvalTerm(e.a, m) ELSE EvalTerm(e.b, m)
      [] e.k = "arith" ->
            (LET a == EvalTerm(e.lhs, m)
                 b == EvalTerm(e.rhs, m)
             IN  CASE e.op = "+" -> RAdd(a, b)
                   [] e.op = "-" -> RSub(a, b)
                   [] e.op = "*" -> RMul(a, b)
                   [] e.op = "/" -> RDiv(a, b))

Holds(e, m) ==
    CASE e.k = "true" -> TRUE
      [] e.k = "false" -> FALSE
      [] e.k = "cmp" ->
            (LET a == EvalTerm(e.lhs, m)
                 c == EvalTerm(e.rhs, m)
             IN  CASE e.op = "<" -> RLess(a, c)
                   [] e.op = "<=" -> ~RLess(c, a)
                   [] e.op = "=" -> REq(a, c)
                   [] e.op = "!=" -> ~REq(a, c)
                   [] e.op = ">" -> RLess(c, a)
                   [] e.op = ">=" -> ~RLess(a, c))
      [] e.k = "and" -> \A j \in 1..Len(e.args) : Holds(e.args[j], m)
      [] e.k = "or" -> \E j \in 1..Len(e.args) : Holds(e.args[j], m)
      [] e.k = "not" -> ~Holds(e.arg, m)
      [] e.k = "implies" -> Holds(e.lhs, m) => Holds(e.rhs, m)
      [] e.k = "forall" ->
            \A b \in Assignments(SeqRange(e.vars)) : Holds(e.body, b @@ m)
      [] e.k = "exists" ->
            \E b \in Assignments(SeqRange(e.vars)) : Holds(e.body, b @@ m)

\* the free constants of the asserted expressions
ConstsOf(asserted) == UNION {Consts(asserted[j]) : j \in 1..Len(asserted)}

IsModel(m, asserted) == \A j \in 1..Len(asserted) : Holds(asserted[j], m)

Satisfiable(asserted) == \E m \in Assignments(ConstsOf(asserted)) : IsModel(m, asserted)

\* s.check() after s.add of every expression of asserted: unsat when the
\* expressions of linear arithmetic among them already contradict each other,
\* unknown when that does not settle it and some expression is outside linear
\* arithmetic
Easy(e) == ~Hard(e)

check(asserted) ==
    IF ~Satisfiable(SelectSeq(asserted, Easy)) THEN "unsat"
    ELSE IF \E j \in 1..Len(asserted) : Hard(asserted[j]) THEN "unknown"
    ELSE "sat"

\* {name: str(m.eval(v, model_completion=True)) for name, v in env.items()},
\* m = s.model(): a constant the model leaves out is completed with 0
model_out(asserted, env) ==
    LET m == CHOOSE mm \in Assignments(ConstsOf(asserted)) : IsModel(mm, asserted)
    IN  [name \in DOMAIN env |-> IF env[name] \in DOMAIN m THEN m[env[name]] ELSE <<0, 1>>]

(***************************************************************************)
(* prove(assumptions, claim, declared_vars, var_types, steps): the pieces  *)
(* of its body.                                                            *)
(***************************************************************************)
EmptyObject == [x \in {} |-> 0]

\* Python truthiness of a JSON value read with .get(): None and {} are false
Truthy(d) == IsObject(d) /\ DOMAIN d # {}

\* d.get(key)
Get(d, key) == IF Has(d, key) THEN d[key] ELSE JsonNone

\* env[name] = Int(name) / Real(name) for name in declared_vars
RECURSIVE DeclareVars(_, _, _)
DeclareVars(names, k, var_types) ==
    IF k = 0 THEN EmptyObject
    ELSE (names[k] :> MkConst(names[k], var_types)) @@ DeclareVars(names, k - 1, var_types)

\* some formula_to_z3 call of a query raises
QueryRaises(assums, goals) ==
    \/ \E j \in 1..Len(assums) : formula_raises(assums[j])
    \/ \E j \in 1..Len(goals) : formula_raises(goals[j])

\* [formula_to_z3(a, env.copy(), var_types) for a in formulas]: every call
\* gets its own copy of env, and env stays as it is
CopyExprs(formulas, env, var_types) ==
    [j \in 1..Len(formulas) |-> formula_expr(formulas[j], env, var_types)]

\* what a step's Solver holds: the assumptions and Not(step_z3)
StepAsserted(assums, goal, env, var_types) ==
    Append(CopyExprs(assums, env, var_types), Not(formula_expr(goal, env, var_types)))

\* what the exhaustiveness Solver holds: the assumptions and Not(Or(*cond_z3))
ExhaustiveAsserted(assums, conditions, env, var_types) ==
    Append(CopyExprs(assums, env, var_types),
           Not([k |-> "or", args |-> CopyExprs(conditions, env, var_types)]))

\* what the final Solver holds: the assumptions and Not(claim_z3), all
\* translated in env itself, each call in the env the previous one left
FinalAsserted(assums, goal, env, var_types) ==
    Append([j \in 1..Len(assums) |->
               formula_expr(assums[j], ArgsEnv(assums, j - 1, env, var_types), var_types)],
           Not(formula_expr(goal, ArgsEnv(assums, Len(assums), env, var_types),
                            var_types)))

\* mutant: the final query translates in copies of env, like the steps
FinalEnv_Copied(assums, goal, env, var_types) == env

\* env after the final query's translations
FinalEnv(assums, goal, env, var_types) ==
    formula_env(goal, ArgsEnv(assums, Len(assums), env, var_types), var_types)

\* what the solver was asked: the source formulas asserted, the formulas whose
\* disjunction was negated, and its answer
LogEntry(site, step, case, assums, goals, result) ==
    [site |-> site, step |-> step, case |-> case, asserted |-> assums,
     goals |-> goals, result |-> result]

\* case_assumptions.append(cs_formula) if s.check() == unsat
AcceptFact(case_assumptions, cs_formula, result) ==
    IF result = "unsat" THEN Append(case_assumptions, cs_formula) ELSE case_assumptions

\* the walk over one case's sub-steps, from sub-step k on; w is the walk so
\* far: whether a translation raised, case_assumptions and the solver's log
RECURSIVE CaseSteps(_, _, _, _, _, _, _)
CaseSubStep(w, cs_formula, result, i, case_idx) ==
    [raised |-> FALSE,
     facts |-> AcceptFact(w.facts, cs_formula, result),
     log |-> Append(w.log, LogEntry("case", i, case_idx, w.facts, <<cs_formula>>, result))]

CaseSteps(w, case_steps, k, env, var_types, i, case_idx) ==
    IF w.raised \/ k > Len(case_steps) THEN w
    ELSE IF ~Truthy(Get(case_steps[k], "formula"))
    THEN CaseSteps(w, case_steps, k + 1, env, var_types, i, case_idx)
    ELSE IF QueryRaises(w.facts, <<case_steps[k].formula>>)
    THEN [raised |-> TRUE, facts |-> w.facts, log |-> w.log]
    ELSE CaseSteps(CaseSubStep(w, case_steps[k].formula,
                               check(StepAsserted(w.facts, case_steps[k].formula, env,
                                                  var_types)),
                               i, case_idx),
                   case_steps, k + 1, env, var_types, i, case_idx)

\* case_assumptions = current_assumptions + [condition]: a new list
CaseAssumptions(current_assumptions, condition) == Append(current_assumptions, condition)

\* mutant: the walk appends to current_assumptions itself (no new list)
OuterAfterCase_Aliased(current_assumptions, facts) == facts

\* the list current_assumptions names once a case has been walked: the walk
\* appended to its own list only
OuterAfterCase(current_assumptions, facts) == current_assumptions

\* case_results.append({"case": case_idx + 1, "ok": True})
CaseResult(case_idx, walk) == [case |-> case_idx, ok |-> TRUE]

\* case.get("steps", [])
CaseStepsOf(case) == IF Has(case, "steps") THEN case.steps ELSE <<>>

\* for case_idx, case in enumerate(cases): c is the loop's state so far
RECURSIVE CasesLoop(_, _, _, _, _, _)
AfterCase(c, condition, case_idx, walk) ==
    [raised |-> walk.raised,
     conditions |-> Append(c.conditions, condition),
     case_results |-> Append(c.case_results, CaseResult(case_idx, walk)),
     live |-> OuterAfterCase(c.live, walk.facts),
     log |-> walk.log]

CasesLoop(c, cases, case_idx, env, var_types, i) ==
    IF c.raised \/ case_idx > Len(cases) THEN c
    ELSE CasesLoop(AfterCase(c, Get(cases[case_idx], "condition"), case_idx,
                             CaseSteps([raised |-> FALSE,
                                        facts |-> CaseAssumptions(
                                                     c.live,
                                                     Get(cases[case_idx], "condition")),
                                        log |-> c.log],
                                       CaseStepsOf(cases[case_idx]), 1, env, var_types,
                                       i, case_idx)),
                   cases, case_idx + 1, env, var_types, i)

\* mutant: the entry does not look at the exhaustiveness verdict
CasesEntry_AlwaysProven(i, exhaustive, case_results) ==
    [step |-> i, type |-> "cases", ok |-> TRUE, status |-> "proven",
     case_results |-> case_results]

\* the entry a cases block appends to step_results
CasesEntry(i, exhaustive, case_results) ==
    IF ~exhaustive
    THEN [step |-> i, type |-> "cases", ok |-> FALSE, status |-> "non-exhaustive",
          message |-> "Cases may not cover all possibilities"]
    ELSE [step |-> i, type |-> "cases", ok |-> TRUE, status |-> "proven",
          case_results |-> case_results]

\* the entry a single-formula step appends to step_results
StepEntry(i, result, asserted, env) ==
    IF result = "unsat" THEN [step |-> i, ok |-> TRUE, status |-> "proven"]
    ELSE IF result = "sat"
    THEN [step |-> i, ok |-> FALSE, status |-> "disproven",
          model |-> model_out(asserted, env)]
    ELSE [step |-> i, ok |-> FALSE, status |-> "unknown"]

\* mutant: the step is appended whatever the solver answered
AfterStepAssumptions_Always(current_assumptions, step_formula, result) ==
    Append(current_assumptions, step_formula)

\* mutant: a proven step replaces the list instead of extending it
AfterStepAssumptions_Replace(current_assumptions, step_formula, result) ==
    IF result = "unsat" THEN <<step_formula>> ELSE current_assumptions

\* current_assumptions.append(step_formula) on unsat only
AfterStepAssumptions(current_assumptions, step_formula, result) ==
    IF result = "unsat" THEN Append(current_assumptions, step_formula)
    ELSE current_assumptions

\* if step_results: response["step_results"] = step_results
WithStepResults(r, results) ==
    IF Len(results) = 0 THEN r ELSE ("step_results" :> results) @@ r

\* mutant: whatever is not sat is reported proven
FinalResponse_NotSatProven(result, asserted, env, results) ==
    IF result = "sat"
    THEN WithStepResults([ok |-> FALSE, status |-> "disproven",
                          model |-> model_out(asserted, env),
                          message |-> "Counterexample found:"], results)
    ELSE WithStepResults([ok |-> TRUE, status |-> "proven"], results)

\* the record returned for the final obligation
FinalResponse(result, asserted, env, results) ==
    IF result = "unsat"
    THEN WithStepResults([ok |-> TRUE, status |-> "proven"], results)
    ELSE IF result = "sat"
    THEN WithStepResults([ok |-> FALSE, status |-> "disproven",
                          model |-> model_out(asserted, env),
                          message |-> "Counterexample found:"], results)
    ELSE WithStepResults([ok |-> FALSE, status |-> "unknown",
                          message |-> "Z3 could not determine satisfiability"],
                         results)

\* mutant: the error response carries no error text
ErrorResponse_NoText == [ok |-> FALSE, status |-> "error"]

\* mutant: a translation error is reported as an undecided claim
ErrorResponse_Unknown == [ok |-> FALSE, status |-> "unknown", message |-> "malformed formula"]

\* except (TermError, FormulaError) / except Exception
ErrorResponse == [ok |-> FALSE, status |-> "error", error |-> "malformed formula"]

(***************************************************************************)
(* The units the driver is run on.                                         *)
(***************************************************************************)
xgt0 == rel(">", var("x"), num(0))

xlt0 == rel("<", var("x"), num(0))

xge0 == rel(">=", var("x"), num(0))

\* x * x > 0
sq == rel(">", binary("*", var("x"), var("x")), num(0))

\* x + y > 0
xplusy == rel(">", binary("+", var("x"), var("y")), num(0))

\* x ^ 2 >= 0: outside the arithmetic the solver decides
powf == rel(">=", [type |-> "pow", base |-> var("x"), exp |-> num(2)], num(0))

AssumptionPool == <<xgt0, xlt0>>

ClaimPool == {sq, xplusy, powf, EmptyObject}

\* case x > 0: have x >= 0   case x < 0: have x > 0
TwoCases == [type |-> "cases",
             cases |-> <<[condition |-> xgt0, steps |-> <<[formula |-> xge0]>>],
                         [condition |-> xlt0, steps |-> <<[formula |-> xgt0]>>]>>]

\* case x > 0: have x * x > 0
OneCase == [type |-> "cases",
            cases |-> <<[condition |-> xgt0, steps |-> <<[formula |-> sq]>>]>>]

NoCases == [type |-> "cases", cases |-> <<>>]

StepPool == {[formula |-> xge0], [formula |-> xlt0], [formula |-> powf],
             [formula |-> EmptyObject], EmptyObject, TwoCases, OneCase, NoCases}

\* the sequences over pool of length at most n
SeqsUpTo(pool, n) == UNION {[1..m -> pool] : m \in 0..n}

\* the selections of at most n formulas of a pool, in the pool's order
RECURSIVE Pick(_, _)
Pick(pool, idx) == IF Len(idx) = 0 THEN <<>> ELSE <<pool[Head(idx)]>> \o Pick(pool, Tail(idx))

Selections(pool, n) ==
    {Pick(pool, idx) : idx \in {s \in SeqsUpTo(1..Len(pool), n) :
                                   \A j \in 1..(Len(s) - 1) : s[j] < s[j + 1]}}

Signatures == {[declared_vars |-> <<>>, var_types |-> EmptyObject],
               [declared_vars |-> <<"x">>, var_types |-> EmptyObject],
               [declared_vars |-> <<"x">>, var_types |-> [x |-> "Int"]]}

(***************************************************************************)
(* Units with names the caller did not declare, a quantifier, integer      *)
(* sorts and malformed nodes.                                              *)
(***************************************************************************)
ygt0 == rel(">", var("y"), num(0))

\* forall x. x + y > 0
allx == [type |-> "forall", vars |-> <<"x">>, body |-> xplusy]

\* a node that is not an object, one with no type, one of an unknown kind, a
\* relation with no rhs, one with an unknown operator, min of one argument
MalformedPool ==
    {JsonNone,
     EmptyObject,
     [type |-> "between"],
     [type |-> "rel", op |-> ">", lhs |-> var("x")],
     rel("~", var("x"), num(0)),
     rel(">", [type |-> "min", args |-> <<var("x")>>], num(0))}

WidePool == MalformedPool \cup {allx, xplusy}

\* case z > 0: have z >= 0
CaseZ == [type |-> "cases",
          cases |-> <<[condition |-> rel(">", var("z"), num(0)),
                       steps |-> <<[formula |-> rel(">=", var("z"), num(0))]>>]>>]

WideStepPool == {[formula |-> xge0], EmptyObject, CaseZ}

WideSignatures == {[declared_vars |-> <<>>, var_types |-> EmptyObject],
                   [declared_vars |-> <<>>, var_types |-> [x |-> "Int", z |-> "Int"]],
                   [declared_vars |-> <<"x", "y">>, var_types |-> [x |-> "Int"]]}

(***************************************************************************)
(* The driver as a state machine: one call of prove(), one action per      *)
(* iteration of its loop over steps.                                       *)
(***************************************************************************)
VARIABLES
    assumptions,          \* the arguments of the call
    claim,
    declared_vars,
    var_types,
    steps,
    pc,                   \* "call", "loop", "done"
    i,                    \* the position in steps (enumerate's i + 1)
    env,
    current_assumptions,
    step_results,
    response,             \* the record returned
    solver_log,           \* the queries put to the solver, in order
    baseline,             \* the verdict of the call before a step was removed
    source,               \* the text given to parse(), lexeme by lexeme
    tokens,               \* what Lexer.tokenize returned
    parser,               \* the fields of the Parser object
    outcome,              \* what parse() returned or raised
    cli                   \* the command line: its mode, exit code, REPL session

\* the variables of the parser (src/python/parser.py) and of the command
\* line (src/python/dsl_cli.py): prove() touches none of them
parse_vars == <<source, tokens, parser, outcome, cli>>

vars == <<assumptions, claim, declared_vars, var_types, steps, pc, i, env,
          current_assumptions, step_results, response, solver_log, baseline,
          source, tokens, parser, outcome, cli>>

args == <<assumptions, claim, declared_vars, var_types, steps>>

NoResponse == [pending |-> TRUE]

NoBaseline == [taken |-> FALSE]

\* no parse() call is under way
NoParser == [idle |-> TRUE]

NoOutcome == [pending |-> TRUE]

\* prove() was not called from the command line
NoCli == [mode |-> "none"]

ParserIdle ==
    /\ source = <<>>
    /\ tokens = <<>>
    /\ parser = NoParser
    /\ outcome = NoOutcome
    /\ cli = NoCli

Init ==
    /\ assumptions \in Selections(AssumptionPool, MaxAssumptions)
    /\ claim \in ClaimPool
    /\ \E sig \in Signatures :
          /\ declared_vars = sig.declared_vars
          /\ var_types = sig.var_types
    /\ steps \in SeqsUpTo(StepPool, MaxSteps)
    /\ pc = "call"
    /\ i = 0
    /\ env = EmptyObject
    /\ current_assumptions = <<>>
    /\ step_results = <<>>
    /\ response = NoResponse
    /\ solver_log = <<>>
    /\ baseline = NoBaseline
    /\ ParserIdle

\* the except clauses: the call returns the error record
Return(r) ==
    /\ response' = r
    /\ pc' = "done"

\* lines 277-293
Enter ==
    /\ pc = "call"
    /\ env' = DeclareVars(declared_vars, Len(declared_vars), var_types)
    /\ step_results' = <<>>
    /\ current_assumptions' = assumptions
    /\ i' = 1
    /\ pc' = "loop"
    /\ UNCHANGED <<args, response, solver_log, baseline, parse_vars>>

IsCasesStep(step) == Has(step, "type") /\ step.type = "cases"

\* lines 325-354, c the state the loop over the cases ended in and result the
\* solver's answer to the exhaustiveness query
CasesVerdict(c, result) ==
    /\ step_results' = Append(step_results, CasesEntry(i, result = "unsat", c.case_results))
    /\ current_assumptions' = c.live
    /\ solver_log' = Append(c.log, LogEntry("exhaustive", i, 0, c.live, c.conditions, result))
    /\ i' = i + 1
    /\ UNCHANGED <<pc, response>>

\* lines 297-354, c the state the loop over the cases ended in
AfterCasesLoop(c) ==
    IF c.raised
    THEN /\ Return(ErrorResponse)
         /\ UNCHANGED <<i, current_assumptions, step_results, solver_log>>
    ELSE IF Len(c.conditions) = 0
    THEN /\ i' = i + 1
         /\ UNCHANGED <<pc, response, current_assumptions, step_results, solver_log>>
    ELSE IF QueryRaises(c.live, c.conditions)
    THEN /\ Return(ErrorResponse)
         /\ UNCHANGED <<i, current_assumptions, step_results, solver_log>>
    ELSE CasesVerdict(c, check(ExhaustiveAsserted(c.live, c.conditions, env, var_types)))

\* lines 297-354: a cases block
CasesStep ==
    /\ pc = "loop"
    /\ i <= Len(steps)
    /\ IsCasesStep(steps[i])
    /\ AfterCasesLoop(CasesLoop([raised |-> FALSE, conditions |-> <<>>,
                                 case_results |-> <<>>, live |-> current_assumptions,
                                 log |-> solver_log],
                                IF Has(steps[i], "cases") THEN steps[i].cases ELSE <<>>,
                                1, env, var_types, i))
    /\ UNCHANGED <<args, env, baseline, parse_vars>>

\* lines 356-359: a step with no formula
StepMissingFormula ==
    /\ pc = "loop"
    /\ i <= Len(steps)
    /\ ~IsCasesStep(steps[i])
    /\ ~Has(steps[i], "formula")
    /\ step_results' = Append(step_results,
                              [step |-> i, ok |-> FALSE, error |-> "Step missing formula"])
    /\ i' = i + 1
    /\ UNCHANGED <<args, pc, env, current_assumptions, response, solver_log, baseline,
                   parse_vars>>

\* lines 368-385, asserted what the step's Solver holds and result its answer
StepVerdict(step_formula, asserted, result) ==
    /\ step_results' = Append(step_results, StepEntry(i, result, asserted, env))
    /\ current_assumptions' = AfterStepAssumptions(current_assumptions, step_formula, result)
    /\ solver_log' = Append(solver_log,
                            LogEntry("step", i, 0, current_assumptions, <<step_formula>>,
                                     result))
    /\ i' = i + 1
    /\ UNCHANGED <<pc, response>>

StepChecked(step_formula, asserted) == StepVerdict(step_formula, asserted, check(asserted))

\* lines 361-385: a single-formula step
FormulaStep ==
    /\ pc = "loop"
    /\ i <= Len(steps)
    /\ ~IsCasesStep(steps[i])
    /\ Has(steps[i], "formula")
    /\ IF QueryRaises(current_assumptions, <<steps[i].formula>>)
       THEN /\ Return(ErrorResponse)
            /\ UNCHANGED <<i, current_assumptions, step_results, solver_log>>
       ELSE StepChecked(steps[i].formula,
                        StepAsserted(current_assumptions, steps[i].formula, env, var_types))
    /\ UNCHANGED <<args, env, baseline, parse_vars>>

\* lines 401-433, asserted what the final Solver holds, result its answer and
\* final_env the env the translations left
FinalVerdict(asserted, result, final_env) ==
    /\ Return(FinalResponse(result, asserted, final_env, step_results))
    /\ env' = final_env
    /\ solver_log' = Append(solver_log,
                            LogEntry("claim", i, 0, current_assumptions, <<claim>>, result))

FinalChecked(asserted, final_env) == FinalVerdict(asserted, check(asserted), final_env)

\* lines 387-433: the final obligation
FinalClaim ==
    /\ pc = "loop"
    /\ i > Len(steps)
    /\ IF QueryRaises(current_assumptions, <<claim>>)
       THEN /\ Return(ErrorResponse)
            /\ UNCHANGED <<env, solver_log>>
       ELSE FinalChecked(FinalAsserted(current_assumptions, claim, env, var_types),
                         FinalEnv(current_assumptions, claim, env, var_types))
    /\ UNCHANGED <<args, i, current_assumptions, step_results, baseline, parse_vars>>

Next ==
    \/ Enter
    \/ CasesStep
    \/ StepMissingFormula
    \/ FormulaStep
    \/ FinalClaim

Spec == Init /\ [][Next]_vars

(***************************************************************************)
(* A second call of prove() on the same unit with one step removed, a      *)
(* single-formula step the first call recorded as proven.                  *)
(***************************************************************************)
RemoveAt(s, k) == [j \in 1..(Len(s) - 1) |-> IF j < k THEN s[j] ELSE s[j + 1]]

Answered(log) == \A j \in 1..Len(log) : log[j].result \in {"sat", "unsat"}

Rerun ==
    /\ pc = "done"
    /\ ~baseline.taken
    /\ \E k \in 1..Len(steps) :
          /\ ~IsCasesStep(steps[k])
          /\ Has(steps[k], "formula")
          /\ \E r \in SeqRange(step_results) : r.step = k /\ r.ok
          /\ steps' = RemoveAt(steps, k)
          /\ baseline' = [taken |-> TRUE, ok |-> response.ok, removed |-> k,
                          answered |-> Answered(solver_log)]
    /\ pc' = "call"
    /\ i' = 0
    /\ env' = EmptyObject
    /\ current_assumptions' = <<>>
    /\ step_results' = <<>>
    /\ response' = NoResponse
    /\ solver_log' = <<>>
    /\ UNCHANGED <<assumptions, claim, declared_vars, var_types, parse_vars>>

NextRerun ==
    \/ Next
    \/ Rerun

SpecRerun == Init /\ [][NextRerun]_vars

(***************************************************************************)
(* The same driver, called on the units with undeclared names, integer     *)
(* sorts, a quantifier and malformed nodes.                                *)
(***************************************************************************)
InitWide ==
    /\ \E m \in WidePool : assumptions \in Selections(<<ygt0, m>>, MaxAssumptions)
    /\ claim \in WidePool
    /\ \E sig \in WideSignatures :
          /\ declared_vars = sig.declared_vars
          /\ var_types = sig.var_types
    /\ steps \in SeqsUpTo(WideStepPool, MaxSteps)
    /\ pc = "call"
    /\ i = 0
    /\ env = EmptyObject
    /\ current_assumptions = <<>>
    /\ step_results = <<>>
    /\ response = NoResponse
    /\ solver_log = <<>>
    /\ baseline = NoBaseline
    /\ ParserIdle

SpecWide == InitWide /\ [][Next]_vars

(***************************************************************************)
(* The lexer (src/python/parser.py, class Lexer).  The source text is a    *)
(* sequence of lexemes, the maximal pieces the token patterns match one at *)
(* a time; blanks between them are skipped by the WHITESPACE pattern.  A   *)
(* token is [type, value].                                                 *)
(***************************************************************************)
KEYWORDS ==
    {"assume", "prove", "let", "have", "assert", "and", "or", "not", "implies",
     "forall", "exists", "true", "false", "theorem", "apply", "Int", "Real",
     "import", "cases", "case",
     "suppose", "given", "assuming", "if",
     "show", "therefore", "thus", "hence", "conclude", "qed",
     "then", "so", "know", "note", "observe", "since", "get",
     "where", "define", "set", "when", "whenever", "use", "using", "by",
     "lemma", "all", "every", "each", "some", "any", "but", "iff", "in"}

KEYWORD_ALIASES ==
    [suppose |-> "ASSUME", given |-> "ASSUME", assuming |-> "ASSUME", if |-> "ASSUME",
     show |-> "PROVE", therefore |-> "PROVE", thus |-> "PROVE", hence |-> "PROVE",
     conclude |-> "PROVE", qed |-> "PROVE",
     then |-> "HAVE", so |-> "HAVE", know |-> "HAVE", note |-> "HAVE",
     observe |-> "HAVE", since |-> "HAVE", get |-> "HAVE",
     where |-> "LET", define |-> "LET", set |-> "LET",
     when |-> "CASE", whenever |-> "CASE",
     use |-> "APPLY", using |-> "APPLY", by |-> "APPLY",
     lemma |-> "THEOREM",
     all |-> "FORALL", every |-> "FORALL", each |-> "FORALL",
     some |-> "EXISTS", any |-> "EXISTS",
     but |-> "AND", iff |-> "IMPLIES"]

SET_ALIASES ==
    [R |-> "R", Reals |-> "R", reals |-> "R",
     Z |-> "Z", Integers |-> "Z", integers |-> "Z", Int |-> "Z",
     N |-> "N", Naturals |-> "N", naturals |-> "N", Nat |-> "N",
     Q |-> "Q", Rationals |-> "Q", rationals |-> "Q"]

FUNCTIONS == {"abs", "sqrt", "min", "max"}

\* str.lower() and str.upper(), on the words that have a letter to change
LowerCased ==
    [Int |-> "int", Real |-> "real", Assume |-> "assume", Prove |-> "prove",
     R |-> "r", Z |-> "z", N |-> "n", Q |-> "q", Nat |-> "nat",
     Reals |-> "reals", Integers |-> "integers", Naturals |-> "naturals",
     Rationals |-> "rationals", T |-> "t", L |-> "l"]

lower(word) == IF word \in DOMAIN LowerCased THEN LowerCased[word] ELSE word

UpperCased ==
    [assume |-> "ASSUME", prove |-> "PROVE", let |-> "LET", have |-> "HAVE",
     assert |-> "ASSERT", and |-> "AND", or |-> "OR", not |-> "NOT",
     implies |-> "IMPLIES", forall |-> "FORALL", exists |-> "EXISTS",
     true |-> "TRUE", false |-> "FALSE", theorem |-> "THEOREM", apply |-> "APPLY",
     Int |-> "INT", Real |-> "REAL", import |-> "IMPORT", cases |-> "CASES",
     case |-> "CASE", Assume |-> "ASSUME", Prove |-> "PROVE"]

upper(word) == UpperCased[word]

\* TOKEN_PATTERNS: the lexemes of the punctuation patterns, of NUMBER, of
\* STRING and of COMMENT; a lexeme no pattern matches; any other lexeme is a
\* word of the IDENT pattern
Punctuation ==
    ("<=" :> "LE") @@ (">=" :> "GE") @@ ("!=" :> "NE") @@ ("=>" :> "IMPLIES_OP") @@
    ("=" :> "EQ") @@ ("<" :> "LT") @@ (">" :> "GT") @@ ("+" :> "PLUS") @@
    ("-" :> "MINUS") @@ ("*" :> "STAR") @@ ("/" :> "SLASH") @@ ("^" :> "CARET") @@
    ("(" :> "LPAREN") @@ (")" :> "RPAREN") @@ ("," :> "COMMA") @@ (":" :> "COLON") @@
    ("." :> "DOT") @@ ("|" :> "PIPE")

Numbers == {"0", "1", "2"}

\* a string literal and the text between its quotes
Strings ==
    ("\"lib.proof\"" :> "lib.proof") @@ ("\"main.proof\"" :> "main.proof") @@
    ("\"a.proof\"" :> "a.proof") @@ ("\"b.proof\"" :> "b.proof") @@
    ("\"bad.proof\"" :> "bad.proof") @@ ("\"none.proof\"" :> "none.proof")

Comments == {"# note"}

Unmatchable == {"@"}

Token(type, value) == [type |-> type, value |-> value]

\* the token an IDENT lexeme becomes
IdentToken(token_value) ==
    IF token_value \in KEYWORDS \/ lower(token_value) \in KEYWORDS
    THEN IF lower(token_value) \in DOMAIN KEYWORD_ALIASES
         THEN Token(KEYWORD_ALIASES[lower(token_value)], token_value)
         ELSE IF lower(token_value) = "in" THEN Token("IN", token_value)
         ELSE Token(upper(token_value), token_value)
    ELSE IF token_value \in FUNCTIONS THEN Token("FUNC", token_value)
    ELSE IF token_value \in DOMAIN SET_ALIASES
    THEN Token("SET", SET_ALIASES[token_value])
    ELSE Token("IDENT", token_value)

\* the tokens one matched lexeme adds
LexemeTokens(lexeme) ==
    IF lexeme = "\n" THEN <<Token("NEWLINE", "\n")>>
    ELSE IF lexeme \in Comments THEN <<>>
    ELSE IF lexeme \in DOMAIN Strings THEN <<Token("STRING", lexeme)>>
    ELSE IF lexeme \in Numbers THEN <<Token("NUMBER", lexeme)>>
    ELSE IF lexeme \in DOMAIN Punctuation THEN <<Token(Punctuation[lexeme], lexeme)>>
    ELSE <<IdentToken(lexeme)>>

\* Lexer.tokenize: the tokens of src[k..], then EOF; raised when no pattern
\* matches some lexeme
Adds(lexeme) == LexemeTokens(lexeme) # <<>>

TokensOf(lexemes) == [j \in 1..Len(lexemes) |-> LexemeTokens(lexemes[j])[1]]

tokenize(src, k) ==
    IF \E j \in k..Len(src) : src[j] \in Unmatchable THEN [raised |-> TRUE, tokens |-> <<>>]
    ELSE [raised |-> FALSE,
          tokens |-> TokensOf(SelectSeq(SubSeq(src, k, Len(src)), Adds))
                        \o <<Token("EOF", "")>>]

(***************************************************************************)
(* The parser (class Parser).  s is the Parser object: pos, assumptions,   *)
(* steps, claim, variables, var_types, theorems, imported_files, errors;   *)
(* s.err is the message of the ParseError being raised ("" when none) and  *)
(* s.node the value the last parse_* method returned.  A method that       *)
(* raises leaves the object as it was at the raise.                        *)
(***************************************************************************)
current(toks, s) == IF s.pos <= Len(toks) THEN toks[s.pos] ELSE toks[Len(toks)]

advance(s) == [s EXCEPT !.pos = @ + 1]

match(toks, s, token_types) == current(toks, s).type \in token_types

raise(s, message) == [s EXCEPT !.err = message]

Raised(s) == s.err # ""

returns(s, node) == [s EXCEPT !.node = node]

expect(toks, s, token_type) ==
    IF current(toks, s).type # token_type THEN raise(s, "Expected token") ELSE advance(s)

RECURSIVE skip_newlines(_, _)
skip_newlines(toks, s) ==
    IF match(toks, s, {"NEWLINE"}) THEN skip_newlines(toks, advance(s)) ELSE s

RECURSIVE parse_formula(_, _)
RECURSIVE parse_implies(_, _)
RECURSIVE parse_or(_, _)
RECURSIVE parse_and(_, _)
RECURSIVE parse_not(_, _)
RECURSIVE parse_quantifier(_, _)
RECURSIVE parse_relation(_, _)
RECURSIVE parse_expr(_, _)
RECURSIVE parse_term(_, _)
RECURSIVE parse_power(_, _)
RECURSIVE parse_unary(_, _)
RECURSIVE parse_atom(_, _)

\* parse_atom, a FUNC token: the arguments so far, r the state after the last argument
FuncNode(r, func_name, arg_list) ==
    IF func_name \in {"abs", "sqrt"}
    THEN IF Len(arg_list) # 1 THEN raise(r, "takes 1 argument")
         ELSE returns(r, [type |-> func_name, arg |-> arg_list[1]])
    ELSE IF Len(arg_list) < 2 THEN raise(r, "requires at least 2 arguments")
         ELSE returns(r, [type |-> func_name, args |-> arg_list])

RECURSIVE FuncArgs(_, _, _, _)
FuncArgs(toks, r, func_name, arg_list) ==
    IF Raised(r) THEN r
    ELSE IF match(toks, r, {"COMMA"})
    THEN FuncArgs(toks, parse_expr(toks, advance(r)), func_name, Append(arg_list, r.node))
    ELSE IF ~match(toks, r, {"RPAREN"}) THEN raise(r, "Expected token")
    ELSE FuncNode(advance(r), func_name, Append(arg_list, r.node))

FuncCall(toks, s, func_name) ==
    IF Raised(s) THEN s ELSE FuncArgs(toks, parse_expr(toks, s), func_name, <<>>)

\* expect(closing) once the inner formula or expression is parsed
Closed(toks, r, closing) == IF Raised(r) THEN r ELSE returns(expect(toks, r, closing), r.node)

AbsNode(r) == IF Raised(r) THEN r ELSE returns(r, [type |-> "abs", arg |-> r.node])

parse_atom(toks, s) ==
    CASE current(toks, s).type = "NUMBER" ->
            returns(advance(s), [type |-> "num", value |-> current(toks, s).value])
      [] current(toks, s).type = "IDENT" ->
            returns([advance(s) EXCEPT !.variables = @ \cup {current(toks, s).value}],
                    [type |-> "var", name |-> current(toks, s).value])
      [] current(toks, s).type = "FUNC" ->
            FuncCall(toks, expect(toks, advance(s), "LPAREN"), current(toks, s).value)
      [] current(toks, s).type = "LPAREN" ->
            Closed(toks, parse_formula(toks, advance(s)), "RPAREN")
      [] current(toks, s).type = "PIPE" ->
            AbsNode(Closed(toks, parse_expr(toks, advance(s)), "PIPE"))
      [] current(toks, s).type = "TRUE" ->
            returns(advance(s), [type |-> "and", args |-> <<>>])
      [] current(toks, s).type = "FALSE" ->
            returns(advance(s), [type |-> "or", args |-> <<>>])
      [] OTHER -> raise(s, "Unexpected token")

NegNode(r) == IF Raised(r) THEN r ELSE returns(r, [type |-> "neg", arg |-> r.node])

parse_unary(toks, s) ==
    IF match(toks, s, {"MINUS"}) THEN NegNode(parse_unary(toks, advance(s)))
    ELSE parse_atom(toks, s)

PowNode(base, r) ==
    IF Raised(r) THEN r ELSE returns(r, [type |-> "pow", base |-> base, exp |-> r.node])

\* mutant: the exponent is one unary operand, and ^ groups to the left
RECURSIVE PowerRest_LeftAssoc(_, _)
PowerRest_LeftAssoc(toks, b) ==
    IF Raised(b) THEN b
    ELSE IF match(toks, b, {"CARET"})
    THEN PowerRest_LeftAssoc(toks, PowNode(b.node, parse_unary(toks, advance(b))))
    ELSE b

PowerRest(toks, b) ==
    IF Raised(b) THEN b
    ELSE IF match(toks, b, {"CARET"}) THEN PowNode(b.node, parse_power(toks, advance(b)))
    ELSE b

parse_power(toks, s) == PowerRest(toks, parse_unary(toks, s))

BinNode(op, left, r) ==
    IF Raised(r) THEN r
    ELSE returns(r, [type |-> "bin", op |-> op, lhs |-> left, rhs |-> r.node])

\* while self.match('STAR', 'SLASH'): l.node is left
RECURSIVE TermLoop(_, _)
TermLoop(toks, l) ==
    IF Raised(l) THEN l
    ELSE IF match(toks, l, {"STAR", "SLASH"})
    THEN TermLoop(toks, BinNode(IF current(toks, l).type = "STAR" THEN "*" ELSE "/",
                                l.node, parse_power(toks, advance(l))))
    ELSE l

parse_term(toks, s) == TermLoop(toks, parse_power(toks, s))

\* while self.match('PLUS', 'MINUS'): l.node is left
RECURSIVE ExprLoop(_, _)
ExprLoop(toks, l) ==
    IF Raised(l) THEN l
    ELSE IF match(toks, l, {"PLUS", "MINUS"})
    THEN ExprLoop(toks, BinNode(IF current(toks, l).type = "PLUS" THEN "+" ELSE "-",
                                l.node, parse_term(toks, advance(l))))
    ELSE l

parse_expr(toks, s) == ExprLoop(toks, parse_term(toks, s))

op_map == [LT |-> "<", LE |-> "<=", EQ |-> "=", NE |-> "!=", GT |-> ">", GE |-> ">="]

\* mutant: a single comparison is wrapped in a conjunction too
ChainNode_AlwaysAnd(comparisons) == [type |-> "and", args |-> comparisons]

\* one comparison, or the conjunction of several
ChainNode(comparisons) ==
    IF Len(comparisons) = 1 THEN comparisons[1] ELSE [type |-> "and", args |-> comparisons]

\* the while loop of parse_relation: r the state after the last parse_expr,
\* whose node is the right side of the comparison with operator op
RECURSIVE RelationLoop(_, _, _, _, _)
RelationLoop(toks, r, comparisons, op, current_left) ==
    IF Raised(r) THEN r
    ELSE IF match(toks, r, DOMAIN op_map)
    THEN RelationLoop(toks, parse_expr(toks, advance(r)),
                      Append(comparisons, [type |-> "rel", op |-> op,
                                           lhs |-> current_left, rhs |-> r.node]),
                      op_map[current(toks, r).type], r.node)
    ELSE returns(r, ChainNode(Append(comparisons, [type |-> "rel", op |-> op,
                                                   lhs |-> current_left, rhs |-> r.node])))

RelationRest(toks, l) ==
    IF Raised(l) THEN l
    ELSE IF ~match(toks, l, DOMAIN op_map) THEN l
    ELSE RelationLoop(toks, parse_expr(toks, advance(l)), <<>>,
                      op_map[current(toks, l).type], l.node)

parse_relation(toks, s) == RelationRest(toks, parse_expr(toks, s))

QuantNode(quant_type, var_names, r) ==
    IF Raised(r) THEN r
    ELSE returns(r, [type |-> quant_type, vars |-> var_names, body |-> r.node])

\* self.expect('DOT'), self.variables.add(name) for each name, the body
QuantBody(toks, s, quant_type, var_names) ==
    IF Raised(s) THEN s
    ELSE QuantNode(quant_type, var_names,
                   parse_formula(toks, [s EXCEPT !.variables = @ \cup SeqRange(var_names)]))

\* the variable list: s stands where an IDENT is expected
RECURSIVE QuantNames(_, _, _, _)
QuantNames(toks, s, quant_type, var_names) ==
    IF current(toks, s).type # "IDENT" THEN raise(s, "Expected token")
    ELSE IF match(toks, advance(s), {"COMMA"})
    THEN QuantNames(toks, advance(advance(s)), quant_type,
                    Append(var_names, current(toks, s).value))
    ELSE QuantBody(toks, expect(toks, advance(s), "DOT"), quant_type,
                   Append(var_names, current(toks, s).value))

parse_quantifier(toks, s) ==
    IF match(toks, s, {"FORALL", "EXISTS"})
    THEN QuantNames(toks, advance(s),
                    IF current(toks, s).type = "FORALL" THEN "forall" ELSE "exists", <<>>)
    ELSE parse_relation(toks, s)

NotNode(r) == IF Raised(r) THEN r ELSE returns(r, [type |-> "not", arg |-> r.node])

parse_not(toks, s) ==
    IF match(toks, s, {"NOT"}) THEN NotNode(parse_not(toks, advance(s)))
    ELSE parse_quantifier(toks, s)

\* args[0] if len(args) == 1 else {"type": kind, "args": args}
JoinNode(kind, arg_list) == IF Len(arg_list) = 1 THEN arg_list[1] ELSE [type |-> kind, args |-> arg_list]

\* while self.match('AND'): r the state after the last parse_not
RECURSIVE AndLoop(_, _, _)
AndLoop(toks, r, arg_list) ==
    IF Raised(r) THEN r
    ELSE IF match(toks, r, {"AND"})
    THEN AndLoop(toks, parse_not(toks, advance(r)), Append(arg_list, r.node))
    ELSE returns(r, JoinNode("and", Append(arg_list, r.node)))

parse_and(toks, s) == AndLoop(toks, parse_not(toks, s), <<>>)

\* while self.match('OR'): r the state after the last parse_and
RECURSIVE OrLoop(_, _, _)
OrLoop(toks, r, arg_list) ==
    IF Raised(r) THEN r
    ELSE IF match(toks, r, {"OR"})
    THEN OrLoop(toks, parse_and(toks, advance(r)), Append(arg_list, r.node))
    ELSE returns(r, JoinNode("or", Append(arg_list, r.node)))

parse_or(toks, s) == OrLoop(toks, parse_and(toks, s), <<>>)

ImpliesNode(left, r) ==
    IF Raised(r) THEN r
    ELSE returns(r, [type |-> "implies", lhs |-> left, rhs |-> r.node])

ImpliesRest(toks, l) ==
    IF Raised(l) THEN l
    ELSE IF match(toks, l, {"IMPLIES", "IMPLIES_OP"})
    THEN ImpliesNode(l.node, parse_implies(toks, advance(l)))
    ELSE l

parse_implies(toks, s) == ImpliesRest(toks, parse_or(toks, s))

parse_formula(toks, s) == parse_implies(toks, s)

\* Parser.__init__, with the imported-file set the new object starts from.
\* opened is no field of the code's object: it records, in order, the paths
\* parse_import called open() on, and travels with the imported-file set.
NewParser(imported_files) ==
    [pos |-> 1, assumptions |-> <<>>, steps |-> <<>>, claim |-> JsonNone,
     variables |-> {}, var_types |-> EmptyObject, theorems |-> EmptyObject,
     imported_files |-> imported_files, errors |-> <<>>, err |-> "", node |-> JsonNone,
     opened |-> <<>>]

\* the files import can open, by normalised path: a library that imports
\* itself, declares a variable, assumes a fact and states a theorem; two
\* libraries that import each other, the second also the main file; the main
\* file; a library with a malformed statement. none.proof does not exist.
Files ==
    ("lib.proof" :>
        <<"import", "\"lib.proof\"", "\n",
          "let", "w", "in", "N", "\n",
          "theorem", "L", ":", "\n",
          "assume", "w", ">", "0", "\n",
          "prove", "w", ">=", "0", "\n">>) @@
    ("a.proof" :>
        <<"import", "\"b.proof\"", "\n",
          "assume", "u", ">", "0", "\n",
          "have", "u", ">", "0", "\n",
          "theorem", "A", ":", "\n",
          "prove", "u", ">=", "0", "\n">>) @@
    ("b.proof" :>
        <<"import", "\"a.proof\"", "\n",
          "import", "\"main.proof\"", "\n",
          "let", "m", ":", "Int", "\n",
          "theorem", "B", ":", "\n",
          "assume", "m", ">", "0", "\n",
          "prove", "m", ">=", "0", "\n",
          "prove", "m", ">", "0", "\n">>) @@
    ("main.proof" :>
        <<"import", "\"a.proof\"", "\n",
          "prove", "x", ">", "0", "\n">>) @@
    ("bad.proof" :>
        <<"assume", "x", ">", "\n">>)

\* the type and the constraint of "in S" / "in S+"
SetType(set_name) == IF set_name \in {"Z", "N"} THEN "Int" ELSE "Real"

SetConstraint(set_name, is_positive) ==
    IF is_positive THEN <<">", "0">>
    ELSE IF set_name = "N" THEN <<">=", "0">>
    ELSE <<>>

\* mutant: the let appends no constraint
LetDeclare_NoConstraint(s, name, var_type, constraint) ==
    IF Raised(s) THEN s
    ELSE [s EXCEPT !.variables = @ \cup {name},
                   !.var_types = (name :> var_type) @@ @]

\* lines 374-385: the variable, its type, its constraint
LetDeclare(s, name, var_type, constraint) ==
    IF Raised(s) THEN s
    ELSE [s EXCEPT !.variables = @ \cup {name},
                   !.var_types = (name :> var_type) @@ @,
                   !.assumptions =
                       IF constraint = <<>> THEN @
                       ELSE Append(@, [type |-> "rel", op |-> constraint[1],
                                       lhs |-> [type |-> "var", name |-> name],
                                       rhs |-> [type |-> "num", value |-> constraint[2]]])]

\* lines 369-372: the optional initialiser
LetInit(toks, s, name, var_type, constraint) ==
    IF match(toks, s, {"EQ"})
    THEN LetDeclare(parse_expr(toks, advance(s)), name, var_type, constraint)
    ELSE LetDeclare(s, name, var_type, constraint)

\* lines 342-365: s stands after the SET token
LetSet(toks, s, name, set_name) ==
    IF match(toks, s, {"PLUS"})
    THEN LetInit(toks, advance(s), name, SetType(set_name), SetConstraint(set_name, TRUE))
    ELSE LetInit(toks, s, name, SetType(set_name), SetConstraint(set_name, FALSE))

\* lines 337-367
LetIn(toks, s, name, var_type) ==
    IF ~match(toks, s, {"IN"}) THEN LetInit(toks, s, name, var_type, <<>>)
    ELSE IF match(toks, advance(s), {"SET"})
    THEN LetSet(toks, advance(advance(s)), name, current(toks, advance(s)).value)
    ELSE raise(advance(s), "Expected set name")

\* lines 327-335
LetColon(toks, s, name) ==
    IF ~match(toks, s, {"COLON"}) THEN LetIn(toks, s, name, "Real")
    ELSE IF match(toks, advance(s), {"INT", "REAL"})
    THEN LetIn(toks, advance(advance(s)), name,
               IF current(toks, advance(s)).type = "INT" THEN "Int" ELSE "Real")
    ELSE raise(advance(s), "Expected Int or Real")

\* lines 321-385, s at the LET token
parse_let(toks, s) ==
    IF current(toks, advance(s)).type # "IDENT" THEN raise(advance(s), "Expected token")
    ELSE LetColon(toks, advance(advance(s)), current(toks, advance(s)).value)

\* self.assumptions.append(formula)
Assumed(r) == IF Raised(r) THEN r ELSE [r EXCEPT !.assumptions = Append(@, r.node)]

\* self.claim = self.parse_formula()
Claimed(r) == IF Raised(r) THEN r ELSE [r EXCEPT !.claim = r.node]

\* self.steps.append({"formula": formula})
Stepped(r) == IF Raised(r) THEN r ELSE [r EXCEPT !.steps = Append(@, [formula |-> r.node])]

\* lines 396-405: what apply appends for a theorem
Implication(theorem) ==
    IF Len(theorem.assumptions) = 0 THEN theorem.conclusion
    ELSE [type |-> "implies",
          lhs |-> IF Len(theorem.assumptions) > 1
                  THEN [type |-> "and", args |-> theorem.assumptions]
                  ELSE theorem.assumptions[1],
          rhs |-> theorem.conclusion]

\* lines 388-405, s at the APPLY token
parse_apply(toks, s) ==
    IF current(toks, advance(s)).type # "IDENT" THEN raise(advance(s), "Expected token")
    ELSE IF current(toks, advance(s)).value \notin DOMAIN s.theorems
    THEN raise(advance(advance(s)), "Unknown theorem")
    ELSE [advance(advance(s)) EXCEPT
             !.assumptions =
                 Append(@, Implication(s.theorems[current(toks, advance(s)).value]))]

\* self.skip_newlines() after a call that did not raise
ThenSkipNewlines(toks, r) == IF Raised(r) THEN r ELSE skip_newlines(toks, r)

RECURSIVE parse_statement(_, _)

\* mutant: the block's assumptions and claim stay the current ones
TheoremEnd_NoRestore(r, theorem_name, old_assumptions, old_claim) ==
    IF Raised(r) THEN r
    ELSE IF r.claim = JsonNone THEN raise(r, "Theorem has no prove statement")
    ELSE [r EXCEPT !.theorems = (theorem_name :> [assumptions |-> r.assumptions,
                                                  conclusion |-> r.claim]) @@ @]

\* lines 434-445: the theorem is stored and the saved state restored
TheoremEnd(r, theorem_name, old_assumptions, old_claim) ==
    IF Raised(r) THEN r
    ELSE IF r.claim = JsonNone THEN raise(r, "Theorem has no prove statement")
    ELSE [r EXCEPT !.theorems = (theorem_name :> [assumptions |-> r.assumptions,
                                                  conclusion |-> r.claim]) @@ @,
                   !.assumptions = old_assumptions,
                   !.claim = old_claim]

\* lines 430-432: statements until a prove
RECURSIVE TheoremBody(_, _)
TheoremBody(toks, s) ==
    IF Raised(s) THEN s
    ELSE IF match(toks, s, {"EOF"}) \/ s.claim # JsonNone THEN s
    ELSE TheoremBody(toks, ThenSkipNewlines(toks, parse_statement(toks, s)))

\* lines 419-445, s after the colon
TheoremBlock(toks, s, theorem_name) ==
    IF Raised(s) THEN s
    ELSE TheoremEnd(TheoremBody(toks, [skip_newlines(toks, s) EXCEPT
                                          !.assumptions = <<>>, !.claim = JsonNone]),
                    theorem_name, s.assumptions, s.claim)

\* lines 413-445, s at the THEOREM token
parse_theorem(toks, s) ==
    IF current(toks, advance(s)).type # "IDENT" THEN raise(advance(s), "Expected token")
    ELSE TheoremBlock(toks, expect(toks, advance(advance(s)), "COLON"),
                      current(toks, advance(s)).value)

\* lines 483-486: the library's statements, with no recovery
RECURSIVE ImportLoop(_, _)
ImportLoop(toks, n) ==
    IF Raised(n) THEN n
    ELSE IF match(toks, n, {"EOF"}) THEN n
    ELSE ImportLoop(toks, ThenSkipNewlines(toks, parse_statement(toks, n)))

\* mutant: the library's assumptions and variables are merged too
ImportMerge_WithFacts(s, n) ==
    IF Raised(n)
    THEN raise([s EXCEPT !.imported_files = n.imported_files, !.opened = n.opened],
               "Error importing")
    ELSE [s EXCEPT !.theorems = n.theorems @@ @,
                   !.assumptions = @ \o n.assumptions,
                   !.variables = @ \cup n.variables,
                   !.imported_files = n.imported_files,
                   !.opened = n.opened]

\* mutant: the importer keeps its own imported-file set
ImportMerge_OwnSet(s, n) ==
    IF Raised(n) THEN raise([s EXCEPT !.opened = n.opened], "Error importing")
    ELSE [s EXCEPT !.theorems = n.theorems @@ @,
                   !.opened = n.opened]

\* lines 488-492: n the library's parser once its loop ended; the imported-
\* file set is the one object both parsers hold
ImportMerge(s, n) ==
    IF Raised(n)
    THEN raise([s EXCEPT !.imported_files = n.imported_files, !.opened = n.opened],
               "Error importing")
    ELSE [s EXCEPT !.theorems = n.theorems @@ @,
                   !.imported_files = n.imported_files,
                   !.opened = n.opened]

\* lines 472-486, lexed what Lexer(source).tokenize() gave
ImportFile(s, lexed) ==
    IF lexed.raised THEN raise(s, "Error importing")
    ELSE ImportMerge(s, ImportLoop(lexed.tokens,
                                   skip_newlines(lexed.tokens,
                                                 [NewParser(s.imported_files)
                                                     EXCEPT !.opened = s.opened])))

\* lines 462-492, s after the STRING token
Import(s, import_path) ==
    IF import_path \in s.imported_files THEN s
    ELSE IF import_path \notin DOMAIN Files
    THEN raise([s EXCEPT !.imported_files = @ \cup {import_path}], "Import file not found")
    ELSE ImportFile([s EXCEPT !.imported_files = @ \cup {import_path},
                              !.opened = Append(@, import_path)],
                    tokenize(Files[import_path], 1))

\* lines 447-492, s at the IMPORT token
parse_import(toks, s) ==
    IF current(toks, advance(s)).type # "STRING" THEN raise(advance(s), "Expected token")
    ELSE Import(advance(advance(s)), Strings[current(toks, advance(s)).value])

RECURSIVE CaseList(_, _, _)
RECURSIVE CaseWalk(_, _, _, _, _)

\* lines 521-525: a have / assert of the case
CaseHave(toks, r, cases, condition, case_steps) ==
    IF Raised(r) THEN r
    ELSE CaseWalk(toks, skip_newlines(toks, r), cases, condition,
                  Append(case_steps, [formula |-> r.node]))

\* lines 520-534: the statements of one case
CaseWalk(toks, s, cases, condition, case_steps) ==
    IF Raised(s) THEN s
    ELSE IF match(toks, s, {"CASE", "EOF", "PROVE", "ASSUME", "LET", "THEOREM", "IMPORT",
                            "CASES"})
    THEN CaseList(toks, s, Append(cases, [condition |-> condition, steps |-> case_steps]))
    ELSE IF match(toks, s, {"HAVE", "ASSERT"})
    THEN CaseHave(toks, parse_formula(toks, advance(s)), cases, condition, case_steps)
    ELSE IF match(toks, s, {"NEWLINE"})
    THEN CaseWalk(toks, advance(s), cases, condition, case_steps)
    ELSE CaseList(toks, s, Append(cases, [condition |-> condition, steps |-> case_steps]))

\* lines 514-516: r the state after the condition
CaseCondition(toks, r, cases) ==
    IF Raised(r) THEN r
    ELSE CaseWalk(toks, ThenSkipNewlines(toks, expect(toks, r, "COLON")), cases, r.node,
                  <<>>)

\* lines 512-543: while self.match('CASE')
CaseList(toks, s, cases) ==
    IF Raised(s) THEN s
    ELSE IF match(toks, s, {"CASE"})
    THEN CaseCondition(toks, parse_formula(toks, advance(s)), cases)
    ELSE IF Len(cases) = 0 THEN raise(s, "cases block requires at least one case")
    ELSE [s EXCEPT !.steps = Append(@, [type |-> "cases", cases |-> cases])]

\* lines 494-543, s at the CASES token
parse_cases(toks, s) ==
    CaseList(toks, ThenSkipNewlines(toks, expect(toks, advance(s), "COLON")), <<>>)

parse_statement(toks, s) ==
    CASE current(toks, s).type = "ASSUME" -> Assumed(parse_formula(toks, advance(s)))
      [] current(toks, s).type = "PROVE" -> Claimed(parse_formula(toks, advance(s)))
      [] current(toks, s).type \in {"HAVE", "ASSERT"} ->
            Stepped(parse_formula(toks, advance(s)))
      [] current(toks, s).type = "LET" -> parse_let(toks, s)
      [] current(toks, s).type = "THEOREM" -> parse_theorem(toks, s)
      [] current(toks, s).type = "APPLY" -> parse_apply(toks, s)
      [] current(toks, s).type = "IMPORT" -> parse_import(toks, s)
      [] current(toks, s).type = "CASES" -> parse_cases(toks, s)
      [] OTHER -> raise(s, "Expected statement keyword")

\* recover_to_next_statement
statement_starters ==
    {"ASSUME", "PROVE", "HAVE", "ASSERT", "LET", "THEOREM", "APPLY", "IMPORT", "CASES",
     "EOF"}

RECURSIVE recover_to_next_statement(_, _)
recover_to_next_statement(toks, s) ==
    IF match(toks, s, {"EOF"}) THEN s
    ELSE IF match(toks, s, {"NEWLINE"})
    THEN IF current(toks, advance(s)).type \in statement_starters THEN advance(s)
         ELSE recover_to_next_statement(toks, advance(s))
    ELSE recover_to_next_statement(toks, advance(s))

\* lines 265-269: the except clause of the loop in parse
Recovered(toks, r) ==
    recover_to_next_statement(toks, [r EXCEPT !.errors = Append(@, r.err), !.err = ""])

\* lines 280-291
Unit(s) ==
    IF DOMAIN s.theorems = {}
    THEN [vars |-> s.variables, var_types |-> s.var_types, assumptions |-> s.assumptions,
          steps |-> s.steps, claim |-> s.claim]
    ELSE [vars |-> s.variables, var_types |-> s.var_types, assumptions |-> s.assumptions,
          steps |-> s.steps, claim |-> s.claim, theorems |-> s.theorems]

(***************************************************************************)
(* The texts parse() is run on: up to MaxLines lines and a last line; one  *)
(* let statement in every form; one comparison chain for every choice of   *)
(* operators.                                                              *)
(***************************************************************************)
BodyPool ==
    {<<"assume", "x", ">", "0", "\n">>,
     <<"have", "x", ">", "0", "\n">>,
     <<"let", "x", ":", "Int", "\n">>,
     <<"let", "x", "\n">>,
     <<"let", "n", "in", "N", "\n">>,
     <<"import", "\"lib.proof\"", "\n">>,
     <<"apply", "L", "\n">>,
     <<"theorem", "T", ":", "assume", "v", ">", "0", "have", "v", ">", "0",
       "prove", "v", ">=", "0", "\n">>,
     <<"apply", "T", "\n">>,
     <<"cases", ":", "\n">>,
     <<"cases", ":", "case", "x", ">", "0", ":", "have", "x", ">=", "0", "\n">>,
     <<"assume", "x", ">", "\n">>,
     <<"prove", "y", ">", "0", "\n">>}

EndPool ==
    {<<>>,
     <<"prove", "x", ">", "0", "\n">>,
     <<"prove", "(", "x", ">", "0", ")", "+", "1", ">", "0", "\n">>,
     <<"prove", "x", ">">>,
     <<"prove", "x", "@", "0">>,
     <<"prove", "x", "\n">>,
     <<"prove", "forall", "k", ".", "k", ">=", "0", "\n">>}

RECURSIVE Flatten(_)
Flatten(lines) == IF Len(lines) = 0 THEN <<>> ELSE Head(lines) \o Flatten(Tail(lines))

LineSources ==
    {Flatten(body) \o end : body \in SeqsUpTo(BodyPool, MaxLines), end \in EndPool}

\* let x [: T] [in S[+]] [= 1], then a prove
LetSources ==
    {<<"let", "x">> \o annotation \o membership \o plus \o initialiser
         \o <<"\n", "prove", "x", ">=", "0", "\n">> :
        annotation \in {<<>>, <<":", "Int">>, <<":", "Real">>},
        membership \in {<<>>} \cup {<<"in", S>> : S \in {"R", "Z", "N", "Q", "Naturals"}},
        plus \in {<<>>, <<"+">>},
        initialiser \in {<<>>, <<"=", "1">>}}

ChainTerms == <<"a", "b", "c", "d", "e", "f">>

\* a op1 b op2 c ...
RECURSIVE ChainText(_, _)
ChainText(ops, k) ==
    IF k > Len(ops) THEN <<>>
    ELSE <<ops[k], ChainTerms[k + 1]>> \o ChainText(ops, k + 1)

ChainSources ==
    {<<"prove", ChainTerms[1]>> \o ChainText(ops, 1) :
        ops \in UNION {[1..n -> {"<", "<=", "=", "!=", ">", ">="}] : n \in 1..MaxChain}}

\* a theorem block after zero or one top-level statement, then the end
TheoremPool ==
    {<<"theorem", "T", ":", "\n", "let", "n", "in", "N", "\n",
       "assume", "n", ">", "0", "\n", "prove", "n", ">=", "0", "\n">>,
     <<"theorem", "T", ":", "\n", "cases", ":", "\n", "case", "v", ">", "0", ":", "\n",
       "have", "v", ">=", "0", "\n", "prove", "v", ">=", "0", "\n">>,
     <<"theorem", "T", ":", "\n", "assume", "v", ">", "0", "\n",
       "assert", "v", ">", "0", "\n", "prove", "v", ">=", "0", "\n">>,
     <<"theorem", "T", ":", "\n", "prove", "v", ">=", "0", "\n">>,
     <<"theorem", "T", ":", "\n", "assume", "v", ">", "0", "\n">>}

TheoremSources ==
    {before \o block \o end :
        before \in {<<>>, <<"assume", "x", ">", "0", "\n">>, <<"have", "x", ">", "0", "\n">>,
                    <<"prove", "y", ">", "0", "\n">>},
        block \in TheoremPool,
        end \in {<<>>, <<"prove", "x", ">", "0", "\n">>}}

\* import statements after nothing or after an assumption, a typed let and
\* a step; then an apply or nothing, and the prove. One of the texts is the
\* text of main.proof.
ImportPool ==
    {<<"import", "\"lib.proof\"", "\n">>,
     <<"import", "\"a.proof\"", "\n">>,
     <<"import", "\"b.proof\"", "\n">>,
     <<"import", "\"main.proof\"", "\n">>,
     <<"import", "\"bad.proof\"", "\n">>,
     <<"import", "\"none.proof\"", "\n">>}

ImportSources ==
    {before \o Flatten(imports) \o after \o <<"prove", "x", ">", "0", "\n">> :
        before \in {<<>>, <<"assume", "x", ">", "0", "\n", "let", "x", ":", "Int", "\n",
                          "have", "x", ">", "0", "\n">>},
        imports \in SeqsUpTo(ImportPool, MaxLines),
        after \in {<<>>, <<"apply", "B", "\n">>}}

\* prove x op1 y op2 z > 0, the same with x op1 y in parentheses, and
\* prove - x ^ y > 0
ArithOps == {"+", "-", "*", "/", "^"}

PlainText(op1, op2) == <<"prove", "x", op1, "y", op2, "z", ">", "0", "\n">>

ParenText(op1, op2) == <<"prove", "(", "x", op1, "y", ")", op2, "z", ">", "0", "\n">>

MinusPowText == <<"prove", "-", "x", "^", "y", ">", "0", "\n">>

\* prove [not] a > 0 c1 b > 0 c2 c > 0
Connectives == {"and", "or", "=>"}

ConnText(negated, c1, c2) ==
    <<"prove">> \o (IF negated THEN <<"not">> ELSE <<>>)
        \o <<"a", ">", "0", c1, "b", ">", "0", c2, "c", ">", "0", "\n">>

PrecedenceSources ==
    {PlainText(op1, op2) : op1 \in ArithOps, op2 \in ArithOps}
        \cup {ParenText(op1, op2) : op1 \in ArithOps, op2 \in ArithOps}
        \cup {MinusPowText}
        \cup {ConnText(negated, c1, c2) :
                 negated \in BOOLEAN, c1 \in Connectives, c2 \in Connectives}

Sources ==
    LineSources \cup LetSources \cup ChainSources \cup TheoremSources \cup ImportSources
        \cup PrecedenceSources

(***************************************************************************)
(* parse(source) as a state machine: the lexer, then one action per        *)
(* iteration of the loop over statements in Parser.parse, then its end.    *)
(***************************************************************************)
driver_vars == <<assumptions, claim, declared_vars, var_types, steps, i, env,
                 current_assumptions, step_results, response, solver_log, baseline, cli>>

InitParse ==
    /\ source \in Sources
    /\ tokens = <<>>
    /\ parser = NoParser
    /\ outcome = NoOutcome
    /\ pc = "tokenize"
    /\ cli = NoCli
    /\ assumptions = <<>>
    /\ claim = JsonNone
    /\ declared_vars = <<>>
    /\ var_types = EmptyObject
    /\ steps = <<>>
    /\ i = 0
    /\ env = EmptyObject
    /\ current_assumptions = <<>>
    /\ step_results = <<>>
    /\ response = NoResponse
    /\ solver_log = <<>>
    /\ baseline = NoBaseline

\* lines 767-770, lexed what lexer.tokenize() gave
Tokenized(lexed) ==
    IF lexed.raised
    THEN /\ outcome' = [raised |-> "Unexpected character"]
         /\ pc' = "raised"
         /\ UNCHANGED <<tokens, parser>>
    ELSE /\ tokens' = lexed.tokens
         /\ parser' = skip_newlines(lexed.tokens, NewParser({}))
         /\ pc' = "statements"
         /\ UNCHANGED outcome

Tokenize ==
    /\ pc = "tokenize"
    /\ Tokenized(tokenize(source, 1))
    /\ UNCHANGED <<source, driver_vars>>

\* lines 262-270: a statement that parses
Statement ==
    /\ pc = "statements"
    /\ ~match(tokens, parser, {"EOF"})
    /\ ~Raised(parse_statement(tokens, parser))
    /\ parser' = skip_newlines(tokens, parse_statement(tokens, parser))
    /\ UNCHANGED <<source, tokens, outcome, pc, driver_vars>>

\* lines 262-270: a statement that raises ParseError
StatementFails ==
    /\ pc = "statements"
    /\ ~match(tokens, parser, {"EOF"})
    /\ Raised(parse_statement(tokens, parser))
    /\ parser' = skip_newlines(tokens, Recovered(tokens, parse_statement(tokens, parser)))
    /\ UNCHANGED <<source, tokens, outcome, pc, driver_vars>>

\* mutant: the recorded errors do not stop parse from returning
ParseOutcome_IgnoreErrors(s) ==
    IF s.claim = JsonNone THEN [raised |-> "No prove statement found"]
    ELSE [unit |-> Unit(s)]

\* lines 272-291
ParseOutcome(s) ==
    IF Len(s.errors) > 0 THEN [raised |-> "Found errors", errors |-> s.errors]
    ELSE IF s.claim = JsonNone THEN [raised |-> "No prove statement found"]
    ELSE [unit |-> Unit(s)]

Finish ==
    /\ pc = "statements"
    /\ match(tokens, parser, {"EOF"})
    /\ outcome' = ParseOutcome(parser)
    /\ pc' = IF Has(ParseOutcome(parser), "unit") THEN "returned" ELSE "raised"
    /\ UNCHANGED <<source, tokens, parser, driver_vars>>

NextParse ==
    \/ Tokenize
    \/ Statement
    \/ StatementFails
    \/ Finish

SpecParse == InitParse /\ [][NextParse]_vars

(***************************************************************************)
(* The command line (src/python/dsl_cli.py): main() verifies a file, emits *)
(* its AST, or runs the REPL.  parse() and prove() are called as wholes.   *)
(***************************************************************************)
\* the loop over statements of Parser.parse, lines 262-270
RECURSIVE StatementLoop(_, _)
StatementLoop(toks, s) ==
    IF match(toks, s, {"EOF"}) THEN s
    ELSE IF Raised(parse_statement(toks, s))
    THEN StatementLoop(toks, skip_newlines(toks, Recovered(toks, parse_statement(toks, s))))
    ELSE StatementLoop(toks, skip_newlines(toks, parse_statement(toks, s)))

\* parse(source), lines 765-770: the unit, or what was raised
ParseLexed(lexed) ==
    IF lexed.raised THEN [raised |-> "Unexpected character"]
    ELSE ParseOutcome(StatementLoop(lexed.tokens, skip_newlines(lexed.tokens, NewParser({}))))

parse(src) == ParseLexed(tokenize(src, 1))

\* RealVal(value) reads the text of a literal (prover.py:62); the driver's
\* units hold the number, so the text is read where a parsed formula is
\* handed to prove()
NumberOf == ("0" :> 0) @@ ("1" :> 1) @@ ("2" :> 2)

RECURSIVE ReadNumbers(_)
ReadNumbers(f) ==
    CASE f.type = "num" -> [f EXCEPT !.value = NumberOf[@]]
      [] f.type \in {"bin", "rel", "implies"} ->
            [f EXCEPT !.lhs = ReadNumbers(@), !.rhs = ReadNumbers(@)]
      [] f.type \in {"abs", "neg", "sqrt", "not"} -> [f EXCEPT !.arg = ReadNumbers(@)]
      [] f.type = "pow" -> [f EXCEPT !.base = ReadNumbers(@), !.exp = ReadNumbers(@)]
      [] f.type \in {"min", "max", "and", "or"} ->
            [f EXCEPT !.args = [j \in 1..Len(@) |-> ReadNumbers(@[j])]]
      [] f.type \in {"forall", "exists"} -> [f EXCEPT !.body = ReadNumbers(@)]
      [] OTHER -> f

ReadFormulas(formulas) == [j \in 1..Len(formulas) |-> ReadNumbers(formulas[j])]

ReadCase(c) ==
    [condition |-> ReadNumbers(c.condition),
     steps |-> [k \in 1..Len(c.steps) |-> [formula |-> ReadNumbers(c.steps[k].formula)]]]

ReadSteps(step_list) ==
    [j \in 1..Len(step_list) |->
        IF IsCasesStep(step_list[j])
        THEN [type |-> "cases",
              cases |-> [c \in 1..Len(step_list[j].cases) |-> ReadCase(step_list[j].cases[c])]]
        ELSE [formula |-> ReadNumbers(step_list[j].formula)]]

\* ast["vars"] / list(variables): the names as a list, in some order
RECURSIVE SetToSeq(_)
SetToSeq(names) ==
    IF names = {} THEN <<>>
    ELSE <<CHOOSE x \in names : TRUE>> \o SetToSeq(names \ {CHOOSE x \in names : TRUE})

\* prove(assumptions, claim, declared_vars): one call with no var_types and
\* no steps (prover.py:277-289, then 387-446); env0 the declared constants
ProveFrom(assums, goal, env0) ==
    IF QueryRaises(assums, <<goal>>) THEN ErrorResponse
    ELSE FinalResponse(check(FinalAsserted(assums, goal, env0, EmptyObject)),
                       FinalAsserted(assums, goal, env0, EmptyObject),
                       FinalEnv(assums, goal, env0, EmptyObject), <<>>)

ProveClaim(assums, goal, names) ==
    ProveFrom(assums, goal, DeclareVars(names, Len(names), EmptyObject))

\* verify_file, lines 54-86: what it returns; ast is what parse_file gave
verify_file(found, json_output, ast) ==
    IF ~found THEN FALSE
    ELSE IF ~Has(ast, "unit") THEN FALSE
    ELSE IF json_output THEN TRUE
    ELSE ProveClaim(ReadFormulas(ast.unit.assumptions), ReadNumbers(ast.unit.claim),
                    SetToSeq(ast.unit.vars)).ok

\* the call of prove() on the whole unit of the file: assumptions, steps,
\* variable types and claim
FullUnitCall(unit) ==
    /\ assumptions' = ReadFormulas(unit.assumptions)
    /\ claim' = ReadNumbers(unit.claim)
    /\ declared_vars' = SetToSeq(unit.vars)
    /\ var_types' = unit.var_types
    /\ steps' = ReadSteps(unit.steps)
    /\ pc' = "call"

\* main, lines 192-194, with verify_file: ast is what parse_file gave. Once
\* the process has exited, prove() is called on the whole unit.
Verified(ast) ==
    /\ cli' = [cli EXCEPT !.exit = <<IF verify_file(cli.found, cli.mode = "json", ast)
                                     THEN 0 ELSE 1>>]
    /\ outcome' = IF cli.found THEN ast ELSE NoOutcome
    /\ IF cli.found /\ cli.mode = "verify" /\ Has(ast, "unit")
       THEN FullUnitCall(ast.unit)
       ELSE /\ pc' = "exited"
            /\ UNCHANGED args

VerifyFile ==
    /\ pc = "cli"
    /\ cli.mode \in {"verify", "json"}
    /\ Verified(parse(source))
    /\ UNCHANGED <<source, tokens, parser, i, env, current_assumptions, step_results,
                   response, solver_log, baseline>>

\* main, lines 195-197: neither --repl nor a file
Usage ==
    /\ pc = "cli"
    /\ cli.mode = "usage"
    /\ cli' = [cli EXCEPT !.exit = <<1>>]
    /\ pc' = "exited"
    /\ UNCHANGED <<args, i, env, current_assumptions, step_results, response, solver_log,
                   baseline, source, tokens, parser, outcome>>

\* repl, lines 148-168: the line is parsed as a unit
ReplParsed(session, ast) ==
    IF ~Has(ast, "unit") THEN session
    ELSE [session EXCEPT
             !.variables = @ \cup ast.unit.vars,
             !.assumptions = @ \o ast.unit.assumptions,
             !.result = ProveClaim(ReadFormulas(session.assumptions \o ast.unit.assumptions),
                                   ReadNumbers(ast.unit.claim),
                                   SetToSeq(session.variables \cup ast.unit.vars))]

\* repl, lines 116-168: one pass of the loop on the line input() returned
ReplLine(session, line) ==
    IF line = <<>> THEN session
    ELSE IF line \in {<<"quit">>, <<"exit">>} THEN [session EXCEPT !.running = FALSE]
    ELSE IF line = <<"help">> THEN session
    ELSE IF line = <<"clear">> THEN [session EXCEPT !.assumptions = <<>>, !.variables = {}]
    ELSE IF line = <<"list">> THEN session
    ELSE ReplParsed(session, parse(line))

\* the lines typed at the prompt
ReplPool ==
    {<<>>,
     <<"clear">>,
     <<"quit">>,
     <<"list">>,
     <<"assume", "x", ">", "0">>,
     <<"let", "n", ":", "Int">>,
     <<"prove", "x", ">=", "0">>,
     <<"assume", "y", ">", "0", "prove", "x", "+", "y", ">", "0">>,
     <<"prove", "x", ">">>}

\* history records the lines entered; result is what the prove() call of
\* the last line returned, if it made one
Repl ==
    /\ pc = "cli"
    /\ cli.mode = "repl"
    /\ cli.running
    /\ Len(cli.history) < MaxSession
    /\ \E line \in ReplPool :
          cli' = [ReplLine([cli EXCEPT !.result = NoResponse], line)
                     EXCEPT !.history = Append(@, line)]
    /\ UNCHANGED <<args, pc, i, env, current_assumptions, step_results, response,
                   solver_log, baseline, source, tokens, parser, outcome>>

\* the files given to the command line
CliBodyPool ==
    {<<"assume", "x", ">", "0", "\n">>,
     <<"let", "n", ":", "Int", "\n">>,
     <<"assume", "n", ">", "0", "\n">>,
     <<"have", "x", ">=", "0", "\n">>,
     <<"have", "x", "\n">>,
     <<"cases", ":", "\n", "case", "x", ">", "0", ":", "have", "x", ">=", "0", "\n",
       "case", "x", "<=", "0", ":", "have", "x", "<", "1", "\n">>}

CliEndPool ==
    {<<>>,
     <<"prove", "x", ">=", "0", "\n">>,
     <<"prove", "n", ">=", "1", "\n">>,
     <<"prove", "x", "^", "2", ">=", "0", "\n">>,
     <<"prove", "x", ">">>}

CliSources ==
    {Flatten(body) \o end : body \in SeqsUpTo(CliBodyPool, MaxLines), end \in CliEndPool}

InitCli ==
    /\ \/ /\ source \in CliSources
          /\ cli \in {[mode |-> "verify", found |-> TRUE, exit |-> <<>>],
                       [mode |-> "json", found |-> TRUE, exit |-> <<>>]}
       \/ /\ source = <<>>
          /\ cli \in {[mode |-> "verify", found |-> FALSE, exit |-> <<>>],
                       [mode |-> "usage", exit |-> <<>>],
                       [mode |-> "repl", assumptions |-> <<>>, variables |-> {},
                        history |-> <<>>, result |-> NoResponse, running |-> TRUE]}
    /\ tokens = <<>>
    /\ parser = NoParser
    /\ outcome = NoOutcome
    /\ pc = "cli"
    /\ assumptions = <<>>
    /\ claim = JsonNone
    /\ declared_vars = <<>>
    /\ var_types = EmptyObject
    /\ steps = <<>>
    /\ i = 0
    /\ env = EmptyObject
    /\ current_assumptions = <<>>
    /\ step_results = <<>>
    /\ response = NoResponse
    /\ solver_log = <<>>
    /\ baseline = NoBaseline

NextCli ==
    \/ VerifyFile
    \/ Usage
    \/ Repl
    \/ Enter
    \/ CasesStep
    \/ FormulaStep
    \/ FinalClaim

SpecCli == InitCli /\ [][NextCli]_vars

(***************************************************************************)
(* Properties of the driver.                                               *)
(***************************************************************************)
\* the env the loop over steps works in
DeclaredEnv == DeclareVars(declared_vars, Len(declared_vars), var_types)

Walking == pc \in {"loop", "done"}

Decided == pc = "done" /\ response.status \in {"proven", "disproven", "unknown"}

IsFormulaStep(step) == ~IsCasesStep(step) /\ Has(step, "formula")

\* the solver's answer to (assums AND NOT goal)
Answer(assums, goal) == check(StepAsserted(assums, goal, DeclaredEnv, var_types))

\* the original assumptions followed by the single-formula steps among
\* steps[1..k] whose own query was answered unsat
LiveAfter(live, step) ==
    IF /\ IsFormulaStep(step)
       /\ ~QueryRaises(live, <<step.formula>>)
       /\ Answer(live, step.formula) = "unsat"
    THEN Append(live, step.formula)
    ELSE live

RECURSIVE ExpectedLive(_)
ExpectedLive(k) ==
    IF k = 0 THEN assumptions ELSE LiveAfter(ExpectedLive(k - 1), steps[k])

LastQuery == solver_log[Len(solver_log)]

\* the names that occur free in a formula or term of the input
RECURSIVE FreeNames(_)
FreeNames(f) ==
    CASE f.type = "var" -> {f.name}
      [] f.type = "num" -> {}
      [] f.type \in {"bin", "rel", "implies"} -> FreeNames(f.lhs) \cup FreeNames(f.rhs)
      [] f.type \in {"abs", "neg", "sqrt", "not"} -> FreeNames(f.arg)
      [] f.type = "pow" -> FreeNames(f.base) \cup FreeNames(f.exp)
      [] f.type \in {"min", "max", "and", "or"} ->
            UNION {FreeNames(f.args[j]) : j \in 1..Len(f.args)}
      [] f.type \in {"forall", "exists"} -> FreeNames(f.body) \ SeqRange(f.vars)

\* C1: for the final obligation the call returns ok=true with status proven
\* exactly when the solver answers unsat to (live assumptions AND NOT claim),
\* and ok=false with status disproven exactly when it answers sat; when the
\* solver finds the assumptions themselves unsatisfiable the claim is proven.
C1_FinalVerdict ==
    Decided =>
        /\ LastQuery.site = "claim"
        /\ LastQuery.asserted = current_assumptions
        /\ LastQuery.goals = <<claim>>
        /\ LastQuery.result = Answer(current_assumptions, claim)
        /\ response.ok <=> LastQuery.result = "unsat"
        /\ response.status = "proven" <=> LastQuery.result = "unsat"
        /\ response.status = "disproven" <=> LastQuery.result = "sat"
        /\ check(CopyExprs(assumptions, DeclaredEnv, var_types)) = "unsat"
               => response.ok /\ response.status = "proven"

\* contradictory assumptions, a claim that does not follow from anything else,
\* reported proven
C1_Witness ==
    /\ Decided
    /\ assumptions = <<xgt0, xlt0>>
    /\ claim = xplusy
    /\ response.ok
    /\ response.status = "proven"

\* C2: all along the walk the live assumption list is the original
\* assumptions followed by the single-formula steps, in input order, whose own
\* query was answered unsat, and every step's query and the claim's query
\* assert the live list as it stands at that point.
C2_LiveAssumptions ==
    Walking =>
        /\ current_assumptions = ExpectedLive(i - 1)
        /\ \A j \in 1..Len(solver_log) :
              solver_log[j].site \in {"step", "claim"} =>
                  /\ solver_log[j].asserted = ExpectedLive(solver_log[j].step - 1)
                  /\ solver_log[j].site = "step" =>
                         /\ solver_log[j].goals = <<steps[solver_log[j].step].formula>>
                         /\ solver_log[j].result =
                                Answer(ExpectedLive(solver_log[j].step - 1),
                                       steps[solver_log[j].step].formula)
                  /\ solver_log[j].site = "claim" =>
                         /\ solver_log[j].step = Len(steps) + 1
                         /\ solver_log[j].goals = <<claim>>

\* a proven step followed by a disproven one: only the first joined the list
C2_Witness ==
    /\ pc = "loop"
    /\ i = 3
    /\ IsFormulaStep(steps[1])
    /\ IsFormulaStep(steps[2])
    /\ step_results[1].status = "proven"
    /\ step_results[2].status = "disproven"
    /\ current_assumptions = Append(assumptions, steps[1].formula)

\* the entries of step_results for position k
EntriesFor(k) == {j \in 1..Len(step_results) : step_results[j].step = k}

\* the exhaustiveness queries put for the block at position k
ExhaustiveQueries(k) ==
    {j \in 1..Len(solver_log) :
        solver_log[j].site = "exhaustive" /\ solver_log[j].step = k}

\* C3 (as claimed): a unit with a cases block found non-exhaustive has
\* ok=false overall, and the block's entry flags it, even when the claim
\* follows from the live assumptions.
C3_NonExhaustiveFails ==
    Decided =>
        \A j \in 1..Len(solver_log) :
            (solver_log[j].site = "exhaustive" /\ solver_log[j].result = "sat") =>
                /\ ~response.ok
                /\ \E r \in EntriesFor(solver_log[j].step) :
                      step_results[r].status = "non-exhaustive"

\* the conditions of the cases block at position k
ConditionsOf(k) == [j \in 1..Len(steps[k].cases) |-> Get(steps[k].cases[j], "condition")]

\* C4: the entry of a cases block with at least one case is ok=true / proven
\* iff the solver answers unsat to (live assumptions at the block AND NOT
\* (C1 OR ... OR Ck)), and ok=false / non-exhaustive otherwise.
C4_CasesEntry ==
    Walking =>
        \A k \in 1..(i - 1) :
            (IsCasesStep(steps[k]) /\ Len(steps[k].cases) > 0) =>
                /\ Cardinality(EntriesFor(k)) = 1
                /\ Cardinality(ExhaustiveQueries(k)) = 1
                /\ \A r \in EntriesFor(k) : \A q \in ExhaustiveQueries(k) :
                      /\ solver_log[q].asserted = ExpectedLive(k - 1)
                      /\ solver_log[q].goals = ConditionsOf(k)
                      /\ solver_log[q].result =
                             check(ExhaustiveAsserted(ExpectedLive(k - 1), ConditionsOf(k),
                                                      DeclaredEnv, var_types))
                      /\ step_results[r].ok <=> solver_log[q].result = "unsat"
                      /\ step_results[r].status =
                             (IF solver_log[q].result = "unsat" THEN "proven"
                              ELSE "non-exhaustive")

\* a proven step, then a block that is exhaustive given that step's fact
C4_Witness ==
    /\ Walking
    /\ i > 2
    /\ IsFormulaStep(steps[1])
    /\ step_results[1].status = "proven"
    /\ IsCasesStep(steps[2])
    /\ Len(step_results) >= 2
    /\ step_results[2].status = "proven"
    /\ Len(current_assumptions) = Len(assumptions) + 1

\* a second block outcome: the block is reported non-exhaustive
C4_WitnessNonExhaustive ==
    /\ Walking
    /\ i > 1
    /\ IsCasesStep(steps[1])
    /\ Len(step_results) >= 1
    /\ step_results[1].status = "non-exhaustive"

\* C5 (as claimed): a case is reported ok only if every sub-step of it was
\* answered unsat.
C5_CaseOkOnlyIfProven ==
    Walking =>
        \A r \in 1..Len(step_results) :
            Has(step_results[r], "case_results") =>
                \A c \in 1..Len(step_results[r].case_results) :
                    step_results[r].case_results[c].ok =>
                        \A j \in 1..Len(solver_log) :
                            (/\ solver_log[j].site = "case"
                             /\ solver_log[j].step = step_results[r].step
                             /\ solver_log[j].case = step_results[r].case_results[c].case)
                                => solver_log[j].result = "unsat"

\* the facts accepted in case c of block k before query j: the goals of the
\* earlier queries of that case answered unsat
RECURSIVE AcceptedBefore(_, _, _)
AcceptedBefore(j, k, c) ==
    IF j = 1 THEN <<>>
    ELSE IF /\ solver_log[j - 1].site = "case"
            /\ solver_log[j - 1].step = k
            /\ solver_log[j - 1].case = c
            /\ solver_log[j - 1].result = "unsat"
    THEN AcceptedBefore(j - 1, k, c) \o solver_log[j - 1].goals
    ELSE AcceptedBefore(j - 1, k, c)

\* C6: the condition of a case and the sub-steps accepted in it are asserted
\* only in later sub-step queries of that same case; every other query (another
\* case, exhaustiveness, a later step, the claim) asserts the live list alone,
\* and the live list never holds them.
C6_CaseFactsLocal ==
    Walking =>
        /\ current_assumptions = ExpectedLive(i - 1)
        /\ \A j \in 1..Len(solver_log) :
              IF solver_log[j].site = "case"
              THEN solver_log[j].asserted =
                       Append(ExpectedLive(solver_log[j].step - 1),
                              ConditionsOf(solver_log[j].step)[solver_log[j].case])
                       \o AcceptedBefore(j, solver_log[j].step, solver_log[j].case)
              ELSE solver_log[j].asserted = ExpectedLive(solver_log[j].step - 1)

\* a sub-step was accepted in the first case; the second case, the
\* exhaustiveness query and the claim were put afterwards
C6_Witness ==
    /\ Decided
    /\ Len(steps) = 2
    /\ steps[1] = TwoCases
    /\ IsFormulaStep(steps[2])
    /\ Len(solver_log) = 5
    /\ solver_log[1].site = "case" /\ solver_log[1].result = "unsat"
    /\ solver_log[2].site = "case" /\ solver_log[2].case = 2
    /\ solver_log[3].site = "exhaustive"
    /\ solver_log[4].site = "step" /\ solver_log[4].result = "sat"

\* every formula of the unit but that of step k translates
OnlyStepMalformed(k) ==
    /\ IsFormulaStep(steps[k])
    /\ formula_raises(steps[k].formula)
    /\ ~QueryRaises(assumptions, <<claim>>)
    /\ \A j \in 1..Len(steps) :
          (j # k /\ IsFormulaStep(steps[j])) => ~formula_raises(steps[j].formula)

\* C7 (as claimed): a malformed step formula is recorded as an errored step,
\* the live list stays, and the call still returns the claim's own verdict.
C7_MalformedStepSkipped ==
    pc = "done" =>
        \A k \in 1..Len(steps) :
            OnlyStepMalformed(k) =>
                /\ response.status \in {"proven", "disproven", "unknown"}
                /\ \E r \in EntriesFor(k) : ~step_results[r].ok

\* C8 (as claimed): step_results mirrors steps one to one, entry k carrying
\* step number k, whatever the kinds of the steps.
C8_StepResultsMirror ==
    Decided =>
        /\ Len(step_results) = Len(steps)
        /\ \A k \in 1..Len(step_results) : step_results[k].step = k
        /\ Len(steps) > 0 => (Has(response, "step_results")
                              /\ response.step_results = step_results)

\* C9: a disproven verdict carries a model with an entry for every variable
\* free in the live assumptions or the claim, declared or not; a proven one
\* carries no model.
C9_ModelCoversFreeVars ==
    pc = "done" =>
        /\ response.status = "disproven" =>
              /\ Has(response, "model")
              /\ FreeNames(claim) \subseteq DOMAIN response.model
              /\ \A j \in 1..Len(current_assumptions) :
                    FreeNames(current_assumptions[j]) \subseteq DOMAIN response.model
        /\ response.status = "proven" => ~Has(response, "model")

\* nothing declared, two free variables, disproven
C9_Witness ==
    /\ pc = "done"
    /\ response.status = "disproven"
    /\ declared_vars = <<>>
    /\ claim = xplusy
    /\ Len(current_assumptions) > 0
    /\ DOMAIN response.model = {"x", "y"}

\* C10: with a solver that answers sat or unsat to every query, the call on
\* the unit without a single-formula step that was recorded as proven returns
\* the same ok as the call on the whole unit.
C10_RemoveProvenStep ==
    (pc = "done" /\ baseline.taken /\ baseline.answered /\ Answered(solver_log))
        => response.ok = baseline.ok

\* a proven step was removed, another step is left, and both calls proved
C10_Witness ==
    /\ pc = "done"
    /\ baseline.taken
    /\ baseline.answered
    /\ Answered(solver_log)
    /\ baseline.ok
    /\ response.ok
    /\ Len(steps) = 1
    /\ Len(step_results) = 1

\* the other outcome: both calls disproved the claim
C10_WitnessDisproven ==
    /\ pc = "done"
    /\ baseline.taken
    /\ baseline.answered
    /\ Answered(solver_log)
    /\ ~baseline.ok
    /\ response.status = "disproven"

\* the sort var_types gives a name
SortOf(name) == IF Has(var_types, name) /\ var_types[name] = "Int" THEN "Int" ELSE "Real"

\* the constants of an expression, the bound ones included
RECURSIVE AllConsts(_)
AllConsts(e) ==
    CASE e.k = "const" -> {e.c}
      [] e.k \in {"arith", "cmp", "implies"} -> AllConsts(e.lhs) \cup AllConsts(e.rhs)
      [] e.k \in {"neg", "not"} -> AllConsts(e.arg)
      [] e.k = "ite" -> AllConsts(e.c) \cup AllConsts(e.a) \cup AllConsts(e.b)
      [] e.k = "pow" -> AllConsts(e.base) \cup AllConsts(e.exp)
      [] e.k \in {"and", "or"} -> UNION {AllConsts(e.args[j]) : j \in 1..Len(e.args)}
      [] e.k \in {"forall", "exists"} -> AllConsts(e.body) \cup SeqRange(e.vars)
      [] OTHER -> {}

\* the expressions the solver held for a logged query
QueryExprs(q) ==
    CASE q.site = "claim" -> FinalAsserted(q.asserted, q.goals[1], DeclaredEnv, var_types)
      [] q.site = "exhaustive" ->
            ExhaustiveAsserted(q.asserted, q.goals, DeclaredEnv, var_types)
      [] OTHER -> StepAsserted(q.asserted, q.goals[1], DeclaredEnv, var_types)

QueryConsts(q) == UNION {AllConsts(QueryExprs(q)[j]) : j \in 1..Len(QueryExprs(q))}

\* C11: within one call every name is an integer-sort constant if var_types
\* maps it to Int and a real-sort constant otherwise, wherever it was first
\* met (declared, assumption, step, case condition, claim, quantifier), in
\* env and in every query put to the solver.
C11_SortFollowsVarTypes ==
    Walking =>
        /\ \A name \in DOMAIN env : env[name] = <<name, SortOf(name)>>
        /\ \A j \in 1..Len(solver_log) :
               \A c \in QueryConsts(solver_log[j]) : c[2] = SortOf(c[1])

\* nothing declared, x and z integers, y real: a case condition on z, a step
\* on x, and a claim that binds x and was decided
C11_Witness ==
    /\ pc = "done"
    /\ declared_vars = <<>>
    /\ Has(var_types, "z")
    /\ claim = allx
    /\ response.status = "disproven"
    /\ env = ("x" :> <<"x", "Int">>) @@ ("y" :> <<"y", "Real">>)
    /\ \E j \in 1..Len(solver_log) :
          solver_log[j].site = "exhaustive" /\ <<"z", "Int">> \in QueryConsts(solver_log[j])
    /\ \E j \in 1..Len(solver_log) :
          solver_log[j].site = "step" /\ <<"x", "Int">> \in QueryConsts(solver_log[j])

\* a formula the translator raises on
Malformed(f) == formula_raises(f)

\* C12: the call never stops short of a return (in the loop some branch
\* applies at every position); when the claim or an assumption is malformed
\* (not an object, no type, unknown kind, missing required field, unknown
\* operator, min/max of fewer than 2 arguments) it returns ok=false, status
\* error and an error message.
C12_MalformedIsError ==
    /\ pc = "loop" => i \in 1..(Len(steps) + 1)
    /\ pc = "done" =>
          /\ Has(response, "status")
          /\ (Malformed(claim) \/ \E j \in 1..Len(assumptions) : Malformed(assumptions[j]))
                 => /\ response.ok = FALSE
                    /\ response.status = "error"
                    /\ Has(response, "error")

\* a well-formed claim, a malformed assumption, steps walked before the error
C12_Witness ==
    /\ pc = "done"
    /\ ~Malformed(claim)
    /\ \E j \in 1..Len(assumptions) : Malformed(assumptions[j])
    /\ response.status = "error"
    /\ Len(steps) > 0

(***************************************************************************)
(* Properties of the parser.                                               *)
(***************************************************************************)
Ended == pc \in {"returned", "raised"}

Lexed == ~tokenize(source, 1).raised

\* the number of top-level statements from s on that begin with PROVE and
\* parse without error
RECURSIVE ProveCount(_, _)
ProveCount(toks, s) ==
    IF match(toks, s, {"EOF"}) THEN 0
    ELSE IF Raised(parse_statement(toks, s))
    THEN ProveCount(toks, skip_newlines(toks, Recovered(toks, parse_statement(toks, s))))
    ELSE (IF current(toks, s).type = "PROVE" THEN 1 ELSE 0)
            + ProveCount(toks, skip_newlines(toks, parse_statement(toks, s)))

TopLevelProves ==
    ProveCount(tokenize(source, 1).tokens,
               skip_newlines(tokenize(source, 1).tokens, NewParser({})))

\* C13: parse returns a unit iff lexing succeeded, no statement raised a
\* parse error and a top-level prove was seen; otherwise it raises ParseError
\* and returns no unit.
C13_UnitIffWellFormed ==
    Ended =>
        /\ pc = "returned" <=> Has(outcome, "unit")
        /\ pc = "raised" <=> Has(outcome, "raised")
        /\ Has(outcome, "unit") <=>
              (Lexed /\ Len(parser.errors) = 0 /\ TopLevelProves > 0)
        /\ Has(outcome, "unit") => outcome.unit.claim # JsonNone

\* a unit with an assumption, a step and a claim was returned
C13_Witness ==
    /\ pc = "returned"
    /\ Len(outcome.unit.assumptions) > 0
    /\ Len(outcome.unit.steps) > 0
    /\ TopLevelProves = 1

\* a statement failed, a later prove parsed, and parse raised
C13_WitnessRaised ==
    /\ pc = "raised"
    /\ Lexed
    /\ Len(parser.errors) > 0
    /\ TopLevelProves > 0

\* C14: a text with two top-level prove statements is rejected: parse never
\* returns a unit for it.
C14_SingleProve == pc = "returned" => TopLevelProves <= 1

\* the first token at or after position e that directly follows a newline
\* and starts a statement (or is EOF)
RECURSIVE ExpectedResume(_, _)
ExpectedResume(toks, e) ==
    IF toks[e].type = "EOF" THEN e
    ELSE IF e > 1 /\ toks[e - 1].type = "NEWLINE" /\ toks[e].type \in statement_starters
    THEN e
    ELSE ExpectedResume(toks, e + 1)

\* C15: a statement that fails records exactly one error, and parsing
\* resumes at the first token, from where the statement stopped, that directly
\* follows a newline and starts a statement: no later statement is skipped.
C15_RecoverySkipsNothing ==
    [][StatementFails =>
          /\ Len(parser'.errors) = Len(parser.errors) + 1
          /\ parser'.pos = ExpectedResume(tokens, parse_statement(tokens, parser).pos)]_vars

\* the formulas of a unit: assumptions, step formulas, case conditions, the
\* sub-steps of the cases, the claim
CaseFormulas(step) ==
    UNION {{step.cases[c].condition}
             \cup {step.cases[c].steps[k].formula : k \in 1..Len(step.cases[c].steps)} :
           c \in 1..Len(step.cases)}

UnitFormulas(u) ==
    SeqRange(u.assumptions) \cup {u.claim}
        \cup UNION {IF IsCasesStep(u.steps[k]) THEN CaseFormulas(u.steps[k])
                    ELSE {u.steps[k].formula} : k \in 1..Len(u.steps)}

\* C16: in a unit parse returned, every assumption, step formula, case
\* condition and the claim translates without error, so the driver does not
\* return status error for it.
C16_ParsedUnitTranslates ==
    pc = "returned" => \A f \in UnitFormulas(outcome.unit) : ~formula_raises(f)

\* the type a let statement at position p declares explicitly, "" when none
LetExplicitType(toks, p) ==
    IF toks[p + 2].type = "IN" THEN SetType(toks[p + 3].value)
    ELSE IF toks[p + 2].type = "COLON"
    THEN IF toks[p + 4].type = "IN" THEN SetType(toks[p + 5].value)
         ELSE IF toks[p + 3].type = "INT" THEN "Int" ELSE "Real"
    ELSE ""

\* the positions of the let statements of name that declare a type
TypedLets(toks, name) ==
    {p \in 1..(Len(toks) - 2) :
        /\ toks[p].type = "LET"
        /\ toks[p + 1].value = name
        /\ LetExplicitType(toks, p) # ""}

FirstTypedLet(toks, name) ==
    CHOOSE p \in TypedLets(toks, name) : \A q \in TypedLets(toks, name) : p <= q

\* C17: var_types[x] is the type of the first let that declared x's type
\* explicitly; a later let of x does not change it.
C17_FirstTypeWins ==
    pc = "returned" =>
        \A name \in DOMAIN outcome.unit.var_types :
            TypedLets(tokens, name) # {} =>
                outcome.unit.var_types[name]
                    = LetExplicitType(tokens, FirstTypedLet(tokens, name))

\* the names that occur in a formula or term, the bound ones included
RECURSIVE NamesOf(_)
NamesOf(f) ==
    CASE f.type = "var" -> {f.name}
      [] f.type = "num" -> {}
      [] f.type \in {"bin", "rel", "implies"} -> NamesOf(f.lhs) \cup NamesOf(f.rhs)
      [] f.type \in {"abs", "neg", "sqrt", "not"} -> NamesOf(f.arg)
      [] f.type = "pow" -> NamesOf(f.base) \cup NamesOf(f.exp)
      [] f.type \in {"min", "max", "and", "or"} ->
            UNION {NamesOf(f.args[j]) : j \in 1..Len(f.args)}
      [] f.type \in {"forall", "exists"} -> NamesOf(f.body) \cup SeqRange(f.vars)

\* C18: in a unit parse returned, every variable name of every formula of
\* assumptions, steps and claim is in vars, quantifier-bound names and the
\* names of formulas that apply injected included.
C18_NamesInVars ==
    pc = "returned" =>
        \A f \in UnitFormulas(outcome.unit) : NamesOf(f) \subseteq outcome.unit.vars

\* the membership of the let statement at position p: <<S, plus>>, or <<>>
LetMembership(toks, p) ==
    IF toks[p + 2].type = "IN" THEN <<toks[p + 3].value, toks[p + 4].type = "PLUS">>
    ELSE IF toks[p + 2].type = "COLON" /\ toks[p + 4].type = "IN"
    THEN <<toks[p + 5].value, toks[p + 6].type = "PLUS">>
    ELSE <<>>

\* what "let name in S" is to append: x >= 0 for N, x > 0 for a set with +
MembershipFacts(name, membership) ==
    IF membership = <<>> THEN <<>>
    ELSE IF membership[2]
    THEN <<[type |-> "rel", op |-> ">", lhs |-> [type |-> "var", name |-> name],
            rhs |-> [type |-> "num", value |-> "0"]]>>
    ELSE IF membership[1] = "N"
    THEN <<[type |-> "rel", op |-> ">=", lhs |-> [type |-> "var", name |-> name],
            rhs |-> [type |-> "num", value |-> "0"]]>>
    ELSE <<>>

MembershipType(membership) == IF membership[1] \in {"Z", "N"} THEN "Int" ELSE "Real"

\* C19: a let statement appends to the current assumptions exactly its
\* membership constraint (x >= 0 for N; x > 0 for N+, Z+, R+, Q+; nothing for
\* R, Z, Q, for no membership and for an initialiser), and the type becomes
\* Int for Z and N, Real for R and Q.
C19_LetMembership ==
    [][(Statement /\ current(tokens, parser).type = "LET") =>
          /\ parser'.assumptions
                = parser.assumptions
                    \o MembershipFacts(tokens[parser.pos + 1].value,
                                       LetMembership(tokens, parser.pos))
          /\ tokens[parser.pos + 1].value \in parser'.variables
          /\ LetMembership(tokens, parser.pos) # <<>> =>
                parser'.var_types[tokens[parser.pos + 1].value]
                    = MembershipType(LetMembership(tokens, parser.pos))]_vars

\* after an assumption, let n in N has appended n >= 0 and made n an Int
C19_Witness ==
    /\ pc = "statements"
    /\ Len(parser.assumptions) = 2
    /\ parser.assumptions[2] = [type |-> "rel", op |-> ">=",
                                lhs |-> [type |-> "var", name |-> "n"],
                                rhs |-> [type |-> "num", value |-> "0"]]
    /\ parser.var_types["n"] = "Int"
    /\ tokens[parser.pos - 1].type = "NEWLINE"
    /\ tokens[parser.pos - 2].value = "N"

\* let x in Q+ = 1 has appended x > 0 only and made x a Real
C19_WitnessPositive ==
    /\ pc = "statements"
    /\ source \in LetSources
    /\ tokens[4] = Token("SET", "Q")
    /\ tokens[5].type = "PLUS"
    /\ tokens[6].type = "EQ"
    /\ parser.pos > 6
    /\ parser.assumptions = MembershipFacts("x", <<"Q", TRUE>>)
    /\ parser.var_types["x"] = "Real"

\* the operators of a chain text, and the relations they are to give
ChainOps(src) == [k \in 1..((Len(src) - 2) \div 2) |-> src[2 * k + 1]]

ChainRelations(ops) ==
    [k \in 1..Len(ops) |->
        [type |-> "rel", op |-> ops[k],
         lhs |-> [type |-> "var", name |-> ChainTerms[k]],
         rhs |-> [type |-> "var", name |-> ChainTerms[k + 1]]]]

\* a op1 b and b op2 c and ...
RECURSIVE AndText(_, _)
AndText(ops, k) ==
    IF k > Len(ops) THEN <<>>
    ELSE (IF k > 1 THEN <<"and">> ELSE <<>>)
            \o <<ChainTerms[k], ops[k], ChainTerms[k + 1]>> \o AndText(ops, k + 1)

\* the formula a text parses to
FormulaOf(text) == parse_formula(tokenize(text, 1).tokens, NewParser({})).node

\* C20: a chain of n >= 2 comparisons parses to the conjunction of the n
\* relations, in order, each with its own operator and neighbours sharing the
\* middle term; one comparison parses to a bare relation; and the chain
\* parses to what its spelling with "and" parses to.
C20_ChainIsConjunction ==
    (pc = "returned" /\ source \in ChainSources) =>
        /\ Len(ChainOps(source)) = 1 =>
              outcome.unit.claim = ChainRelations(ChainOps(source))[1]
        /\ Len(ChainOps(source)) >= 2 =>
              outcome.unit.claim
                  = [type |-> "and", args |-> ChainRelations(ChainOps(source))]
        /\ outcome.unit.claim = FormulaOf(AndText(ChainOps(source), 1))

\* a chain of three comparisons with three different operators
C20_Witness ==
    /\ pc = "returned"
    /\ source = <<"prove", "a", "<", "b", "<=", "c", "=", "d">>
    /\ Len(outcome.unit.claim.args) = 3
    /\ outcome.unit.claim.args[2].lhs = outcome.unit.claim.args[1].rhs

\* the formula that starts at position p of the tokens
FormulaAt(toks, p) == parse_formula(toks, [NewParser({}) EXCEPT !.pos = p]).node

\* the position of the first PROVE token at or after p (or of EOF)
RECURSIVE FirstProve(_, _)
FirstProve(toks, p) ==
    IF toks[p].type \in {"PROVE", "EOF"} THEN p ELSE FirstProve(toks, p + 1)

\* the assumptions the statements from p up to the closing prove state: the
\* formula of each assume, the membership fact of each let
RECURSIVE BlockFacts(_, _)
BlockFacts(toks, p) ==
    IF toks[p].type \in {"PROVE", "EOF"} THEN <<>>
    ELSE (CASE toks[p].type = "ASSUME" -> <<FormulaAt(toks, p + 1)>>
            [] toks[p].type = "LET" ->
                  MembershipFacts(toks[p + 1].value, LetMembership(toks, p))
            [] OTHER -> <<>>)
         \o BlockFacts(toks, p + 1)

TheoremStatement == Statement /\ current(tokens, parser).type = "THEOREM"

\* C21: once a theorem block is parsed, the enclosing assumptions and claim
\* are what they were before it, and theorems[N] holds the assumptions stated
\* in the block and the formula of the prove that closed it.
C21_TheoremRestores ==
    [][TheoremStatement =>
          /\ parser'.assumptions = parser.assumptions
          /\ parser'.claim = parser.claim
          /\ tokens[parser.pos + 1].value \in DOMAIN parser'.theorems
          /\ parser'.theorems[tokens[parser.pos + 1].value]
                = [assumptions |-> BlockFacts(tokens, parser.pos + 3),
                   conclusion |-> FormulaAt(tokens, FirstProve(tokens, parser.pos + 3) + 1)]]_vars

\* after a top-level assumption, a theorem with a let and an assume was
\* stored and the assumption list is the one of before
C21_Witness ==
    /\ pc = "statements"
    /\ source \in TheoremSources
    /\ "T" \in DOMAIN parser.theorems
    /\ Len(parser.theorems["T"].assumptions) = 2
    /\ Len(parser.assumptions) = 1
    /\ parser.claim = JsonNone

\* a unit was returned whose claim is the top-level prove written before the
\* theorem, not the theorem's
C21_WitnessClaimKept ==
    /\ pc = "returned"
    /\ source \in TheoremSources
    /\ Has(outcome.unit, "theorems")
    /\ outcome.unit.claim # outcome.unit.theorems["T"].conclusion
    /\ tokens[Len(tokens) - 1].type = "NEWLINE"
    /\ tokens[1].type = "PROVE"
    /\ ProveCount(tokens, NewParser({})) = 1

\* C29: a have / assert or a cases block inside a theorem body does not
\* become a step of the enclosing unit: steps after the block = steps before.
C29_TheoremStepsLocal ==
    [][TheoremStatement => parser'.steps = parser.steps]_vars

ImportStatement == Statement /\ current(tokens, parser).type = "IMPORT"

\* C22: within one call of parse each import path is opened and parsed at
\* most once, nested imports included; importing a path that was imported
\* already changes nothing; and parsing terminates, whatever the files
\* import: every import statement is one step of the loop over statements,
\* each step of the loop moves the position forward, and the position stays
\* within the tokens, whose last is EOF.
C22_ImportOnce ==
    /\ [](Has(parser, "opened") =>
             \A j, k \in 1..Len(parser.opened) :
                 parser.opened[j] = parser.opened[k] => j = k)
    /\ [][(ImportStatement
             /\ Strings[tokens[parser.pos + 1].value] \in parser.imported_files) =>
              parser' = [parser EXCEPT !.pos = parser'.pos]]_vars
    /\ [](pc = "statements" => parser.pos \in 1..Len(tokens))
    /\ [][(pc = "statements" /\ pc' = "statements") => parser'.pos > parser.pos]_vars

\* a.proof and b.proof import each other, b.proof the main file and the main
\* file a.proof: each was opened, once, and parse returned
C22_Witness ==
    /\ pc = "returned"
    /\ source = Files["main.proof"]
    /\ parser.opened = <<"a.proof", "b.proof", "main.proof">>

\* C23: an import statement changes the importer's theorem table and
\* imported-file set only: its assumptions, steps, claim, vars and var_types
\* stay, whatever the library assumes, has, lets or proves; a library with no
\* prove is accepted.
C23_ImportFrame ==
    [][ImportStatement =>
          /\ parser'.assumptions = parser.assumptions
          /\ parser'.steps = parser.steps
          /\ parser'.claim = parser.claim
          /\ parser'.variables = parser.variables
          /\ parser'.var_types = parser.var_types
          /\ parser'.errors = parser.errors]_vars

\* after an assumption, a let and a step, a.proof (no top-level prove, an
\* assume and a have) and through it b.proof (a let and a prove) were imported
C23_Witness ==
    /\ pc = "statements"
    /\ Has(parser, "opened")
    /\ Len(parser.assumptions) = 1
    /\ Len(parser.steps) = 1
    /\ parser.var_types = ("x" :> "Int")
    /\ DOMAIN parser.theorems = {"A", "B"}
    /\ "a.proof" \in parser.imported_files
    /\ Len(parser.errors) = 0

\* the binding power of an arithmetic operator and of a connective, as
\* stated: * / above + -, ^ above both; and above or above implication
ArithLevel(op) == IF op \in {"+", "-"} THEN 1 ELSE IF op \in {"*", "/"} THEN 2 ELSE 3

ConnLevel(c) == IF c = "=>" THEN 1 ELSE IF c = "or" THEN 2 ELSE 3

NameNode(name) == [type |-> "var", name |-> name]

ArithTree(op, left, right) ==
    IF op = "^" THEN [type |-> "pow", base |-> left, exp |-> right]
    ELSE [type |-> "bin", op |-> op, lhs |-> left, rhs |-> right]

\* x op1 y op2 z: the tighter operator groups first; equal levels group to
\* the left, except ^ which groups to the right
ExpectedArith(op1, op2) ==
    IF ArithLevel(op1) > ArithLevel(op2) \/ (ArithLevel(op1) = ArithLevel(op2) /\ op1 # "^")
    THEN ArithTree(op2, ArithTree(op1, NameNode("x"), NameNode("y")), NameNode("z"))
    ELSE ArithTree(op1, NameNode("x"), ArithTree(op2, NameNode("y"), NameNode("z")))

Positive(term) == [type |-> "rel", op |-> ">", lhs |-> term,
                   rhs |-> [type |-> "num", value |-> "0"]]

ConnTree(c, left, right) ==
    IF c = "=>" THEN [type |-> "implies", lhs |-> left, rhs |-> right]
    ELSE [type |-> c, args |-> <<left, right>>]

\* A c1 B c2 C: the tighter connective groups first; implication groups to
\* the right; a run of and (of or) is one node with the operands in order
ExpectedConn(first, c1, c2) ==
    IF c1 = c2 /\ c1 # "=>"
    THEN [type |-> c1, args |-> <<first, Positive(NameNode("b")), Positive(NameNode("c"))>>]
    ELSE IF ConnLevel(c1) > ConnLevel(c2)
    THEN ConnTree(c2, ConnTree(c1, first, Positive(NameNode("b"))), Positive(NameNode("c")))
    ELSE ConnTree(c1, first, ConnTree(c2, Positive(NameNode("b")), Positive(NameNode("c"))))

\* C24: the AST follows the binding powers: * / tighter than + -, both
\* left-associative, ^ right-associative, unary minus tighter than ^,
\* parentheses override, not tighter than and, and tighter than or, or
\* tighter than implication, which is right-associative.
C24_BindingPowers ==
    /\ source \in PrecedenceSources => pc # "raised"
    /\ pc = "returned" =>
          /\ \A op1, op2 \in ArithOps :
                /\ source = PlainText(op1, op2) =>
                      outcome.unit.claim = Positive(ExpectedArith(op1, op2))
                /\ source = ParenText(op1, op2) =>
                      outcome.unit.claim
                          = Positive(ArithTree(op2, ArithTree(op1, NameNode("x"), NameNode("y")),
                                               NameNode("z")))
          /\ source = MinusPowText =>
                outcome.unit.claim
                    = Positive([type |-> "pow",
                                base |-> [type |-> "neg", arg |-> NameNode("x")],
                                exp |-> NameNode("y")])
          /\ \A c1, c2 \in Connectives :
                /\ source = ConnText(FALSE, c1, c2) =>
                      outcome.unit.claim = ExpectedConn(Positive(NameNode("a")), c1, c2)
                /\ source = ConnText(TRUE, c1, c2) =>
                      outcome.unit.claim
                          = ExpectedConn([type |-> "not", arg |-> Positive(NameNode("a"))],
                                         c1, c2)

\* x ^ y ^ z was parsed: a power whose exponent is a power
C24_Witness ==
    /\ pc = "returned"
    /\ source = PlainText("^", "^")
    /\ outcome.unit.claim.lhs.exp.type = "pow"

\* not a > 0 or b > 0 => c > 0 was parsed: an implication of a disjunction
\* whose first operand is the negation
C24_WitnessConnectives ==
    /\ pc = "returned"
    /\ source = ConnText(TRUE, "or", "=>")
    /\ outcome.unit.claim.type = "implies"
    /\ outcome.unit.claim.lhs.args[1].type = "not"

\* the names the caller declared or that occur free in the claim or in a
\* live assumption
FreeOrDeclared ==
    SeqRange(declared_vars) \cup FreeNames(claim)
        \cup UNION {FreeNames(current_assumptions[j]) : j \in 1..Len(current_assumptions)}

\* C27: translating a quantifier leaves the environment outside its body as
\* it was: a bound name that was absent is absent again afterwards, so the
\* environment after the final translations, and the keys of a reported
\* model, hold declared and free names only.
C27_BoundNamesLocal ==
    (pc = "done" /\ response.status # "error") =>
        /\ DOMAIN env \subseteq FreeOrDeclared
        /\ Has(response, "model") => DOMAIN response.model \subseteq FreeOrDeclared

\* C28: whatever prove() returns, status is proven, disproven, unknown or
\* error; ok is true iff status is proven; model is present iff status is
\* disproven; the error text is present iff status is error.
C28_ResponseShape ==
    pc = "done" =>
        /\ Has(response, "ok") /\ Has(response, "status")
        /\ response.status \in {"proven", "disproven", "unknown", "error"}
        /\ response.ok = TRUE <=> response.status = "proven"
        /\ Has(response, "model") <=> response.status = "disproven"
        /\ Has(response, "error") <=> response.status = "error"

\* a disproven claim after a step, with its model
C28_Witness ==
    /\ pc = "done"
    /\ response.status = "disproven"
    /\ Has(response, "model")
    /\ Has(response, "step_results")

C28_WitnessUnknown == pc = "done" /\ response.status = "unknown"

C28_WitnessError == pc = "done" /\ response.status = "error" /\ Len(step_results) > 0

C28_WitnessProven == pc = "done" /\ response.status = "proven" /\ response.ok

\* the solver query of single-formula step k
StepQuery(k) ==
    CHOOSE q \in SeqRange(solver_log) : q.site = "step" /\ q.step = k

\* C30: a single-formula step recorded as disproven carries a model with a
\* value for every variable free in the live assumptions or in the step
\* formula, declared or not.
C30_StepModelCoversFreeVars ==
    \A k \in 1..Len(step_results) :
        (Has(step_results[k], "status") /\ step_results[k].status = "disproven"
            /\ ~IsCasesStep(steps[step_results[k].step])) =>
            /\ Has(step_results[k], "model")
            /\ FreeNames(steps[step_results[k].step].formula)
                   \subseteq DOMAIN step_results[k].model
            /\ \A j \in 1..Len(StepQuery(step_results[k].step).asserted) :
                  FreeNames(StepQuery(step_results[k].step).asserted[j])
                      \subseteq DOMAIN step_results[k].model

\* C25: verifying a file exits with code 0 exactly when prove() on the
\* file's whole unit (assumptions, steps, variable types, claim) answers
\* proven; a parse error, a missing file and any other error exit non-zero.
C25_ExitCodeIsVerdict ==
    cli.mode = "verify" =>
        /\ pc = "exited" => cli.exit = <<1>>
        /\ pc = "done" => (cli.exit = <<0>> <=> response.status = "proven")

\* the assumptions of the assume lines entered since the start of the
\* session or the last clear, and the names of the let lines
RECURSIVE EnteredFacts(_)
EnteredFacts(history) ==
    IF Len(history) = 0 THEN <<>>
    ELSE IF history[Len(history)] = <<"clear">> THEN <<>>
    ELSE IF Len(history[Len(history)]) > 0 /\ history[Len(history)][1] = "assume"
    THEN Append(EnteredFacts(SubSeq(history, 1, Len(history) - 1)),
                FormulaOf(Tail(history[Len(history)])))
    ELSE EnteredFacts(SubSeq(history, 1, Len(history) - 1))

RECURSIVE EnteredNames(_)
EnteredNames(history) ==
    IF Len(history) = 0 THEN {}
    ELSE IF history[Len(history)] = <<"clear">> THEN {}
    ELSE IF Len(history[Len(history)]) > 0 /\ history[Len(history)][1] = "let"
    THEN EnteredNames(SubSeq(history, 1, Len(history) - 1)) \cup {history[Len(history)][2]}
    ELSE EnteredNames(SubSeq(history, 1, Len(history) - 1))

LastLine == cli.history[Len(cli.history)]

\* C26: in the REPL every assume line adds its formula to the session's
\* assumptions and every let line its variable, and a prove line is checked
\* by a call of prove() with all assumptions entered since the start of the
\* session or the last clear.
C26_ReplAccumulates ==
    (cli.mode = "repl" /\ Len(cli.history) > 0) =>
        /\ cli.assumptions = EnteredFacts(cli.history)
        /\ EnteredNames(cli.history) \subseteq cli.variables
        /\ (Len(LastLine) > 0 /\ LastLine[1] = "prove" /\ Has(parse(LastLine), "unit")) =>
              cli.result = ProveClaim(ReadFormulas(EnteredFacts(cli.history)),
                                      ReadNumbers(FormulaOf(Tail(LastLine))),
                                      SetToSeq(cli.variables))

====
